---- MODULE Spec2Model ----
(***************************************************************************)
(* Bracket-arbitrage scanner: the opportunity dispatch of scan_cycle       *)
(* (src/src/main.rs), the risk limiter, the executor's classification of   *)
(* an execution (src/src/executor.rs) and the detector that feeds them     *)
(* (src/src/detector.rs).                                                  *)
(*                                                                         *)
(* Spec is the scan; DetectorSpec, QuoteSpec, FeeSpec and BuildSpec apply   *)
(* one function each to bounded arguments; ClientSpec is one call of the   *)
(* HTTP client (src/src/kalshi/client.rs) with its retry loop.             *)
(*                                                                         *)
(* Option<T> values are sequences: <<>> is None and <<v>> is Some(v).      *)
(* Dates are day numbers.  Money is integer cents.                         *)
(***************************************************************************)
EXTENDS Integers, Sequences, FiniteSets, TLC

\* ------------------------------------------------------------- constants

MAX_OPEN_ARBS == 5

MAX_DAILY_LOSS_CENTS == 500

MAX_DAILY_ORDERS == 50

FEE_BPS == 7

\* The last day the clock of the model reaches.
MaxDay == 1

\* config.toml: [risk] position_size, min_net_profit_cents, min_roi_pct (as
\* the exact ratio num/den); [scanner] min_brackets, max_brackets.
Config ==
    [position_size |-> 5, min_net_profit_cents |-> 10,
     min_roi_pct |-> [num |-> 1, den |-> 1],
     min_brackets |-> 2, max_brackets |-> 2]

\* ------------------------------------------------------------- helpers

None == <<>>

Some(v) == <<v>>

unwrap_or(o, d) == IF o = <<>> THEN d ELSE o[1]

RECURSIVE SeqSum(_)
SeqSum(s) == IF s = <<>> THEN 0 ELSE Head(s) + SeqSum(Tail(s))

SetMax(S) == CHOOSE x \in S : \A y \in S : y <= x

SetMin(S) == CHOOSE x \in S : \A y \in S : x <= y

Range(s) == {s[i] : i \in 1..Len(s)}

\* ------------------------------------------------------------- detector

\* A fee rounded down.
taker_fee_cents_Floor(contracts, price_cents) ==
    IF price_cents <= 0 \/ price_cents >= 100
    THEN 0
    ELSE (FEE_BPS * contracts * price_cents * (100 - price_cents)) \div 10000

\* A fee rounded to the nearest cent.
taker_fee_cents_Nearest(contracts, price_cents) ==
    IF price_cents <= 0 \/ price_cents >= 100
    THEN 0
    ELSE (FEE_BPS * contracts * price_cents * (100 - price_cents) + 5000) \div 10000

\* contracts is a u32 and price_cents an i64: at prices 1..99 the numerator
\* is below 2^46, far from the width of an i64.
taker_fee_cents(contracts, price_cents) ==
    IF price_cents <= 0 \/ price_cents >= 100
    THEN 0
    ELSE (FEE_BPS * contracts * price_cents * (100 - price_cents) + 9999) \div 10000

\* An extractor that takes the depth of one level only, the first at the best
\* price.
quote_from_orderbook_OneLevel(ticker, orderbook) ==
    IF orderbook.no = <<>>
    THEN None
    ELSE LET best_no_price == SetMax({l.price : l \in Range(orderbook.no)})
             best_yes_price ==
                 IF orderbook.yes = <<>> THEN None
                 ELSE Some(SetMax({l.price : l \in Range(orderbook.yes)}))
             no == orderbook.no
             yes == orderbook.yes
             FirstAt(levels, p) ==
                 levels[SetMin({i \in 1..Len(levels) : levels[i].price = p})]
         IN Some([ticker |-> ticker,
                  yes_ask_cents |-> 100 - best_no_price,
                  yes_bid_cents |-> unwrap_or(best_yes_price, 0),
                  depth_at_no |-> FirstAt(no, best_no_price).quantity,
                  depth_at_yes |-> IF best_yes_price = None THEN 0
                                   ELSE FirstAt(yes, best_yes_price[1]).quantity])

\* An extractor that trusts the first level of each side to be the best.
quote_from_orderbook_Sorted(ticker, orderbook) ==
    IF orderbook.no = <<>>
    THEN None
    ELSE LET no == orderbook.no
             yes == orderbook.yes
             AtNo(l) == IF l.price = no[1].price THEN l.quantity ELSE 0
             AtYes(l) == IF l.price = yes[1].price THEN l.quantity ELSE 0
         IN Some([ticker |-> ticker,
                  yes_ask_cents |-> 100 - no[1].price,
                  yes_bid_cents |-> IF yes = <<>> THEN 0 ELSE yes[1].price,
                  depth_at_no |-> SeqSum([i \in 1..Len(no) |-> AtNo(no[i])]),
                  depth_at_yes |-> IF yes = <<>> THEN 0
                                   ELSE SeqSum([i \in 1..Len(yes) |-> AtYes(yes[i])])])

\* quote_from_orderbook: None when the no side is empty.
quote_from_orderbook(ticker, orderbook) ==
    IF orderbook.no = <<>>
    THEN None
    ELSE LET best_no_price == SetMax({l.price : l \in Range(orderbook.no)})
             best_yes_price ==
                 IF orderbook.yes = <<>> THEN None
                 ELSE Some(SetMax({l.price : l \in Range(orderbook.yes)}))
             AtNo(l) == IF l.price = best_no_price THEN l.quantity ELSE 0
             AtYes(l) == IF Some(l.price) = best_yes_price THEN l.quantity ELSE 0
             no == orderbook.no
             yes == orderbook.yes
         IN Some([ticker |-> ticker,
                  yes_ask_cents |-> 100 - best_no_price,
                  yes_bid_cents |-> unwrap_or(best_yes_price, 0),
                  depth_at_no |-> SeqSum([i \in 1..Len(no) |-> AtNo(no[i])]),
                  depth_at_yes |-> IF best_yes_price = None THEN 0
                                   ELSE SeqSum([i \in 1..Len(yes) |-> AtYes(yes[i])])])

\* roi >= min_roi_pct on exact ratios (denominators positive).
RoiGe(roi, min_roi) == roi.num * min_roi.den >= min_roi.num * roi.den

\* A LONG evaluation whose fee is the ceiling of the summed fee.
LongEval_SummedFee(quotes, position_size) ==
    LET sum_cents == SeqSum([i \in 1..Len(quotes) |-> quotes[i].yes_ask_cents])
        total_fees ==
            (FEE_BPS * position_size
                * SeqSum([i \in 1..Len(quotes) |->
                             quotes[i].yes_ask_cents * (100 - quotes[i].yes_ask_cents)])
                + 9999) \div 10000
        gross_profit == (100 - sum_cents) * position_size
        net_profit == gross_profit - total_fees
        total_cost == sum_cents * position_size + total_fees
    IN [direction |-> "Long", brackets |-> quotes, sum_cents |-> sum_cents,
        total_fees_cents |-> total_fees, gross_profit_cents |-> gross_profit,
        net_profit_cents |-> net_profit,
        roi_pct |-> IF total_cost > 0
                    THEN [num |-> net_profit * 100, den |-> total_cost]
                    ELSE [num |-> 0, den |-> 1],
        min_depth |-> IF quotes = <<>> THEN 0
                      ELSE SetMin({q.depth_at_no : q \in Range(quotes)})]

LongEval(quotes, position_size) ==
    LET sum_cents == SeqSum([i \in 1..Len(quotes) |-> quotes[i].yes_ask_cents])
        total_fees ==
            SeqSum([i \in 1..Len(quotes) |->
                       taker_fee_cents(position_size, quotes[i].yes_ask_cents)])
        gross_profit == (100 - sum_cents) * position_size
        net_profit == gross_profit - total_fees
        total_cost == sum_cents * position_size + total_fees
    IN [direction |-> "Long", brackets |-> quotes, sum_cents |-> sum_cents,
        total_fees_cents |-> total_fees, gross_profit_cents |-> gross_profit,
        net_profit_cents |-> net_profit,
        roi_pct |-> IF total_cost > 0
                    THEN [num |-> net_profit * 100, den |-> total_cost]
                    ELSE [num |-> 0, den |-> 1],
        min_depth |-> IF quotes = <<>> THEN 0
                      ELSE SetMin({q.depth_at_no : q \in Range(quotes)})]

\* A SHORT evaluation with the gross profit of a LONG one.
ShortEval_LongGross(quotes, position_size) ==
    LET sum_cents == SeqSum([i \in 1..Len(quotes) |-> quotes[i].yes_bid_cents])
        total_fees ==
            SeqSum([i \in 1..Len(quotes) |->
                       taker_fee_cents(position_size, quotes[i].yes_bid_cents)])
        gross_profit == (100 - sum_cents) * position_size
        net_profit == gross_profit - total_fees
        total_cost == 100 * position_size
    IN [direction |-> "Short", brackets |-> quotes, sum_cents |-> sum_cents,
        total_fees_cents |-> total_fees, gross_profit_cents |-> gross_profit,
        net_profit_cents |-> net_profit,
        roi_pct |-> IF total_cost > 0
                    THEN [num |-> net_profit * 100, den |-> total_cost]
                    ELSE [num |-> 0, den |-> 1],
        min_depth |-> IF quotes = <<>> THEN 0
                      ELSE SetMin({q.depth_at_yes : q \in Range(quotes)})]

ShortEval(quotes, position_size) ==
    LET sum_cents == SeqSum([i \in 1..Len(quotes) |-> quotes[i].yes_bid_cents])
        total_fees ==
            SeqSum([i \in 1..Len(quotes) |->
                       taker_fee_cents(position_size, quotes[i].yes_bid_cents)])
        gross_profit == (sum_cents - 100) * position_size
        net_profit == gross_profit - total_fees
        total_cost == 100 * position_size
    IN [direction |-> "Short", brackets |-> quotes, sum_cents |-> sum_cents,
        total_fees_cents |-> total_fees, gross_profit_cents |-> gross_profit,
        net_profit_cents |-> net_profit,
        roi_pct |-> IF total_cost > 0
                    THEN [num |-> net_profit * 100, den |-> total_cost]
                    ELSE [num |-> 0, den |-> 1],
        min_depth |-> IF quotes = <<>> THEN 0
                      ELSE SetMin({q.depth_at_yes : q \in Range(quotes)})]

Gates(e, position_size, min_net_profit_cents, min_roi_pct) ==
    /\ e.net_profit_cents >= min_net_profit_cents
    /\ RoiGe(e.roi_pct, min_roi_pct)
    /\ e.min_depth >= position_size

\* The ArbOpportunity pushed for an evaluation that passed the gates.
Opportunity(e) ==
    [direction |-> e.direction, brackets |-> e.brackets, sum_cents |-> e.sum_cents,
     total_fees_cents |-> e.total_fees_cents,
     gross_profit_cents |-> e.gross_profit_cents,
     net_profit_cents |-> e.net_profit_cents, roi_pct |-> e.roi_pct]

\* A detector that looks at SHORT only when LONG was not emitted.
detect_arb_Exclusive(quotes, position_size, min_net_profit_cents, min_roi_pct) ==
    LET long == LongEval(quotes, position_size)
        short == ShortEval(quotes, position_size)
    IN IF Gates(long, position_size, min_net_profit_cents, min_roi_pct)
       THEN <<Opportunity(long)>>
       ELSE IF Gates(short, position_size, min_net_profit_cents, min_roi_pct)
       THEN <<Opportunity(short)>> ELSE <<>>

detect_arb(quotes, position_size, min_net_profit_cents, min_roi_pct) ==
    LET long == LongEval(quotes, position_size)
        short == ShortEval(quotes, position_size)
    IN (IF Gates(long, position_size, min_net_profit_cents, min_roi_pct)
        THEN <<Opportunity(long)>> ELSE <<>>)
       \o
       (IF Gates(short, position_size, min_net_profit_cents, min_roi_pct)
        THEN <<Opportunity(short)>> ELSE <<>>)

\* ------------------------------------------------------------- executor

\* A fully-filled test that forgets the failed legs.
is_fully_filled_NoFailures(r) == r.resting = <<>> /\ r.other = <<>> /\ r.filled # <<>>

is_fully_filled(r) ==
    /\ r.resting = <<>>
    /\ r.other = <<>>
    /\ r.api_failures = <<>>
    /\ r.filled # <<>>

\* A total-failure test that asks for a recorded failure.
is_total_failure_Recorded(r) ==
    r.filled = <<>> /\ r.resting = <<>> /\ r.other = <<>> /\ r.api_failures # <<>>

is_total_failure(r) == r.filled = <<>> /\ r.resting = <<>> /\ r.other = <<>>

\* A request builder that prices each direction at the other side's quote.
build_order_request_Swapped(bracket, direction, position_size) ==
    IF direction = "Long"
    THEN [ticker |-> bracket.ticker, action |-> "buy", side |-> "yes",
          order_type |-> "limit", count |-> position_size,
          yes_price |-> Some(bracket.yes_bid_cents), no_price |-> None]
    ELSE [ticker |-> bracket.ticker, action |-> "sell", side |-> "yes",
          order_type |-> "limit", count |-> position_size,
          yes_price |-> Some(bracket.yes_ask_cents), no_price |-> None]

\* The CreateOrderRequest struct, with its Rust field names.
build_order_request(bracket, direction, position_size) ==
    IF direction = "Long"
    THEN [ticker |-> bracket.ticker, action |-> "buy", side |-> "yes",
          order_type |-> "limit", count |-> position_size,
          yes_price |-> Some(bracket.yes_ask_cents), no_price |-> None]
    ELSE [ticker |-> bracket.ticker, action |-> "sell", side |-> "yes",
          order_type |-> "limit", count |-> position_size,
          yes_price |-> Some(bracket.yes_bid_cents), no_price |-> None]

\* JSON values of an optional number: null is <<>>, the number n is <<n>>.
JsonNull == <<>>

JsonNumber(n) == <<n>>

\* Serialize for CreateOrderRequest, as derived: every field under its name,
\* order_type renamed to "type", an Option as its value or null.
to_value(req) ==
    [ticker |-> req.ticker, action |-> req.action, side |-> req.side,
     type |-> req.order_type, count |-> req.count,
     yes_price |-> IF req.yes_price = None THEN JsonNull
                   ELSE JsonNumber(req.yes_price[1]),
     no_price |-> IF req.no_price = None THEN JsonNull
                  ELSE JsonNumber(req.no_price[1])]

\* What one spawned create_order task can come back with: an order in some
\* status (the exchange may leave the optional yes_price and count out), an
\* error of the call, or a panic of the task.
ReplyKinds == {"executed", "executed_bare", "resting", "canceled", "api_error", "panic"}

\* The Order the exchange returns for request req, the i-th of the execution.
OrderOf(req, i, kind) ==
    [order_id |-> i, ticker |-> req.ticker,
     status |-> IF kind = "executed_bare" THEN "executed" ELSE kind,
     yes_price |-> IF kind = "executed_bare" THEN None ELSE req.yes_price,
     count |-> IF kind = "executed_bare" THEN None ELSE Some(req.count)]

\* The ways create_order returns Err: "api_error" is a failed send or a
\* status that is not a success (a 429 that outlasts the retries included),
\* "parse_error" a success whose body is not an order.
CreateOrderErrors == {"api_error", "parse_error"}

\* An await loop that takes an executed order for a resting one.
RECURSIVE Classify_ExecutedResting(_, _, _, _)
Classify_ExecutedResting(reqs, replies, i, acc) ==
    IF i > Len(reqs) THEN acc
    ELSE LET kind == replies[i]
             ticker == reqs[i].ticker
             order == OrderOf(reqs[i], i, kind)
             next ==
                 IF kind = "panic" THEN acc
                 ELSE IF kind \in CreateOrderErrors
                 THEN [acc EXCEPT !.api_failures = Append(@, ticker)]
                 ELSE IF order.status \in {"executed", "resting"}
                 THEN [acc EXCEPT !.resting = Append(@, <<ticker, order>>)]
                 ELSE [acc EXCEPT !.other = Append(@, <<ticker, order>>)]
         IN Classify_ExecutedResting(reqs, replies, i + 1, next)

\* An await loop that counts a panicked task as a failed order.
RECURSIVE Classify_PanicFailed(_, _, _, _)
Classify_PanicFailed(reqs, replies, i, acc) ==
    IF i > Len(reqs) THEN acc
    ELSE LET kind == replies[i]
             ticker == reqs[i].ticker
             order == OrderOf(reqs[i], i, kind)
             next ==
                 IF kind \in CreateOrderErrors \cup {"panic"}
                 THEN [acc EXCEPT !.api_failures = Append(@, ticker)]
                 ELSE IF order.status = "executed"
                 THEN [acc EXCEPT !.filled = Append(@, <<ticker, order>>)]
                 ELSE IF order.status = "resting"
                 THEN [acc EXCEPT !.resting = Append(@, <<ticker, order>>)]
                 ELSE [acc EXCEPT !.other = Append(@, <<ticker, order>>)]
         IN Classify_PanicFailed(reqs, replies, i + 1, next)

\* An await loop that takes a resting order for a filled one.
RECURSIVE Classify_RestingFilled(_, _, _, _)
Classify_RestingFilled(reqs, replies, i, acc) ==
    IF i > Len(reqs) THEN acc
    ELSE LET kind == replies[i]
             ticker == reqs[i].ticker
             order == OrderOf(reqs[i], i, kind)
             next ==
                 IF kind = "panic" THEN acc
                 ELSE IF kind \in CreateOrderErrors
                 THEN [acc EXCEPT !.api_failures = Append(@, ticker)]
                 ELSE IF order.status \in {"executed", "resting"}
                 THEN [acc EXCEPT !.filled = Append(@, <<ticker, order>>)]
                 ELSE [acc EXCEPT !.other = Append(@, <<ticker, order>>)]
         IN Classify_RestingFilled(reqs, replies, i + 1, next)

\* The await loop over the handles, from handle i on: each reply is pushed on
\* one of the four lists of acc, a panicked task on none.
RECURSIVE Classify(_, _, _, _)
Classify(reqs, replies, i, acc) ==
    IF i > Len(reqs) THEN acc
    ELSE LET kind == replies[i]
             ticker == reqs[i].ticker
             order == OrderOf(reqs[i], i, kind)
             next ==
                 IF kind = "panic" THEN acc
                 ELSE IF kind \in CreateOrderErrors
                 THEN [acc EXCEPT !.api_failures = Append(@, ticker)]
                 ELSE IF order.status = "executed"
                 THEN [acc EXCEPT !.filled = Append(@, <<ticker, order>>)]
                 ELSE IF order.status = "resting"
                 THEN [acc EXCEPT !.resting = Append(@, <<ticker, order>>)]
                 ELSE [acc EXCEPT !.other = Append(@, <<ticker, order>>)]
         IN Classify(reqs, replies, i + 1, next)

\* The create_order requests of one execution, one per bracket.
OrderRequests(opp, position_size) ==
    [i \in 1..Len(opp.brackets) |->
        build_order_request(opp.brackets[i], opp.direction, position_size)]

NoResult ==
    [direction |-> "none", filled |-> <<>>, resting |-> <<>>, other |-> <<>>,
     api_failures |-> <<>>]

execute_arb(opp, position_size, replies) ==
    Classify(OrderRequests(opp, position_size), replies, 1,
             [NoResult EXCEPT !.direction = opp.direction])

\* ------------------------------------------------------------- risk limiter

RiskLimits_new(d) ==
    [open_arbs |-> 0, daily_pnl_cents |-> 0, daily_orders |-> 0, today |-> d]

\* A rollover that clears every counter.
maybe_reset_day_All(l, d) == IF d # l.today THEN RiskLimits_new(d) ELSE l

\* d is the date Utc::now() gives.
maybe_reset_day(l, d) ==
    IF d # l.today
    THEN [l EXCEPT !.daily_pnl_cents = 0, !.daily_orders = 0, !.today = d]
    ELSE l

\* A check whose open-arbs limit is off by one.
check_reason_OffByOne(l) ==
    IF l.open_arbs > MAX_OPEN_ARBS THEN Some("MAX_OPEN_ARBS")
    ELSE IF l.daily_pnl_cents <= -(MAX_DAILY_LOSS_CENTS) THEN Some("MAX_DAILY_LOSS")
    ELSE IF l.daily_orders >= MAX_DAILY_ORDERS THEN Some("MAX_DAILY_ORDERS")
    ELSE None

\* A check that lets one more execution through the daily order gate.
check_reason_OrdersOffByOne(l) ==
    IF l.open_arbs >= MAX_OPEN_ARBS THEN Some("MAX_OPEN_ARBS")
    ELSE IF l.daily_pnl_cents <= -(MAX_DAILY_LOSS_CENTS) THEN Some("MAX_DAILY_LOSS")
    ELSE IF l.daily_orders > MAX_DAILY_ORDERS THEN Some("MAX_DAILY_ORDERS")
    ELSE None

\* A check of the daily limits alone.
check_reason_DailyOnly(l) ==
    IF l.daily_pnl_cents <= -(MAX_DAILY_LOSS_CENTS) THEN Some("MAX_DAILY_LOSS")
    ELSE IF l.daily_orders >= MAX_DAILY_ORDERS THEN Some("MAX_DAILY_ORDERS")
    ELSE None

\* The limit that blocks, on the counters as maybe_reset_day left them.
check_reason(l) ==
    IF l.open_arbs >= MAX_OPEN_ARBS THEN Some("MAX_OPEN_ARBS")
    ELSE IF l.daily_pnl_cents <= -(MAX_DAILY_LOSS_CENTS) THEN Some("MAX_DAILY_LOSS")
    ELSE IF l.daily_orders >= MAX_DAILY_ORDERS THEN Some("MAX_DAILY_ORDERS")
    ELSE None

\* RiskLimits::check: the counters after it and what it returns.
check(l, d) ==
    LET l1 == maybe_reset_day(l, d)
    IN [limits |-> l1, reason |-> check_reason(l1)]

\* ------------------------------------------------------------- storage

log_opportunity(opp, executed) ==
    [direction |-> opp.direction, brackets |-> Len(opp.brackets),
     net_profit_cents |-> opp.net_profit_cents,
     executed |-> IF executed THEN "YES" ELSE "NO"]

\* The row appended to data/reconciliation.md, without its actual-net and
\* slippage columns.
log_reconciliation(opp, filled_orders, incomplete) ==
    [direction |-> opp.direction,
     order_ids |-> [i \in 1..Len(filled_orders) |-> filled_orders[i][2].order_id],
     statuses |-> [i \in 1..Len(filled_orders) |-> filled_orders[i][2].status],
     expected_net |-> opp.net_profit_cents,
     note |-> IF incomplete THEN " (INCOMPLETE)" ELSE ""]

\* ------------------------------------------------------------- scheduler

VARIABLES
    dry_run,      \* config::is_dry_run(), fixed at startup
    feed,         \* which events the exchange lists
    limits,       \* RiskLimits
    now,          \* the UTC date of the clock
    pc,           \* "scan": between events; "dispatch": at the head of the
                  \* loop over opps; "react": execute_arb has returned
    opps,         \* the opportunities of the event, from the current one on
    result,       \* the ExecutionResult execute_arb returned
    posts,        \* create_order requests issued for the current opportunity
                  \* (this and the five below are emptied when the scan
                  \* moves on to the next event)
    deletes,      \* cancel_order calls made for it, each with its outcome
    alerts,       \* telegram::send_alert messages sent for it
    opp_log,      \* rows appended to data/opportunities.md for it
    recon_log,    \* rows appended to data/reconciliation.md for it
    reaction,     \* the branch scan_cycle took for it
    event,        \* what get_orderbook returned for the markets of the event
                  \* scanned last
    detector_runs \* the quote sets detect_arb was called on for that event

\* The argument and the return value of a function applied on its own.
VARIABLES input, output

benchVars == <<input, output>>

\* One call of KalshiClient::get, post or cancel_order.
VARIABLES
    method,       \* "GET", "POST" or "DELETE"; "none" before the call
    path,         \* the path argument of the call
    requests,     \* the HTTP requests built by the call, in order
    attempt,      \* the loop variable of the retry loop
    sent,         \* HTTP requests sent by the call
    statuses,     \* the status codes of the responses received, in order
    retry_afters, \* the Retry-After headers of the 429 responses, in order
    waits,        \* the back-off sleeps of the call, in seconds
    returned      \* None while the call runs, then how it ended

clientVars ==
    <<method, path, requests, attempt, sent, statuses, retry_afters, waits,
      returned>>

\* The state of the parts below, each a record while its specification runs
\* and <<>> otherwise.
VARIABLES
    throttle,     \* the read throttle and the GETs of the clones of a client
    pager,        \* one call of list_series or get_events
    series_cache, \* SeriesCache and its lookups
    main_loop,    \* the loop of main and the shutdown flag
    executor      \* one call of execute_arb

asideVars == <<throttle, pager, series_cache, main_loop, executor>>

\* What a step of the scan leaves alone.
offVars == <<benchVars, clientVars, asideVars>>

schedVars ==
    <<dry_run, feed, limits, now, pc, opps, result, posts, deletes, alerts, opp_log,
      recon_log, reaction, event, detector_runs>>

vars == <<schedVars, benchVars, clientVars, asideVars>>

Level(p, q) == [price |-> p, quantity |-> q]

Fetched(ticker, no, yes) ==
    [ticker |-> ticker, ok |-> TRUE, orderbook |-> [yes |-> yes, no |-> no]]

FetchFailed(ticker) ==
    [ticker |-> ticker, ok |-> FALSE, orderbook |-> [yes |-> <<>>, no |-> <<>>]]

\* The events a scan meets on a LONG feed and on a SHORT feed: for each
\* active market of the event, what get_orderbook returns.  In turn: an
\* arbitrage (asks 45 + 45 on the LONG feed, bids 55 + 55 on the SHORT one),
\* none (asks 50 + 50, no bids), a market with an empty no side, a failed
\* fetch.
Feeds == {"long", "short"}

Events(f) ==
    { IF f = "long"
      THEN <<Fetched("M1", <<Level(50, 3), Level(55, 10)>>, <<Level(40, 10)>>),
             Fetched("M2", <<Level(55, 4), Level(55, 6)>>, <<Level(40, 10)>>)>>
      ELSE <<Fetched("M1", <<Level(40, 10)>>, <<Level(50, 3), Level(55, 10)>>),
             Fetched("M2", <<Level(40, 10)>>, <<Level(55, 4), Level(55, 6)>>)>>,
      <<Fetched("M1", <<Level(50, 10)>>, <<>>),
        Fetched("M2", <<Level(50, 10)>>, <<>>)>>,
      <<Fetched("M1", <<Level(55, 10)>>, <<>>),
        Fetched("M2", <<>>, <<Level(40, 10)>>)>>,
      <<Fetched("M1", <<Level(55, 10)>>, <<>>), FetchFailed("M2")>> }

\* The loop over the active markets of an event, from market i on.
RECURSIVE fetch_quotes(_, _, _)
fetch_quotes(markets, i, quotes) ==
    IF i > Len(markets) THEN [skip_event |-> FALSE, quotes |-> quotes]
    ELSE IF ~markets[i].ok THEN [skip_event |-> TRUE, quotes |-> quotes]
    ELSE LET quote == quote_from_orderbook(markets[i].ticker, markets[i].orderbook)
         IN IF quote = None THEN [skip_event |-> TRUE, quotes |-> quotes]
            ELSE fetch_quotes(markets, i + 1, Append(quotes, quote[1]))

\* An event whose partial quotes go to the detector all the same.
event_opps_Partial(markets) ==
    detect_arb(fetch_quotes(markets, 1, <<>>).quotes, Config.position_size,
               Config.min_net_profit_cents, Config.min_roi_pct)

\* The opportunities scan_cycle finds for an event.
event_opps(markets) ==
    LET f == fetch_quotes(markets, 1, <<>>)
    IN IF f.skip_event \/ Len(f.quotes) # Len(markets) THEN <<>>
       ELSE detect_arb(f.quotes, Config.position_size,
                       Config.min_net_profit_cents, Config.min_roi_pct)

\* The quote sets detect_arb is called on for an event: none when the event
\* is skipped, the quotes of all its markets otherwise.
event_detector_runs(markets) ==
    LET f == fetch_quotes(markets, 1, <<>>)
    IN IF f.skip_event \/ Len(f.quotes) # Len(markets) THEN <<>>
       ELSE <<f.quotes>>

\* An order count that takes the failed legs in.
order_count_AllLegs(r) ==
    Len(r.filled) + Len(r.resting) + Len(r.other) + Len(r.api_failures)

order_count(r) == Len(r.filled) + Len(r.resting) + Len(r.other)

\* A loss that takes the resting orders in.
worst_case_loss_Placed(r) ==
    LET placed == r.filled \o r.resting
    IN SeqSum([i \in 1..Len(placed) |->
                  unwrap_or(placed[i][2].yes_price, 0)
                      * unwrap_or(placed[i][2].count, 0)])

\* Worst-case loss of a mixed execution: what the filled orders cost.
worst_case_loss(r) ==
    SeqSum([i \in 1..Len(r.filled) |->
               unwrap_or(r.filled[i][2].yes_price, 0)
                   * unwrap_or(r.filled[i][2].count, 0)])

\* A fully-filled bump that books the gross profit.
fully_filled_limits_Gross(l, opp) ==
    [l EXCEPT !.open_arbs = @ + 1, !.daily_pnl_cents = @ + opp.gross_profit_cents]

fully_filled_limits(l, opp) ==
    [l EXCEPT !.open_arbs = @ + 1, !.daily_pnl_cents = @ + opp.net_profit_cents]

mixed_limits(l, r) == [l EXCEPT !.daily_pnl_cents = @ - worst_case_loss(r)]

\* A cancel loop that gives up at the first failed cancel.
RECURSIVE cancel_each_Stop(_, _)
cancel_each_Stop(orders, fails) ==
    IF orders = <<>> THEN <<>>
    ELSE LET id == Head(orders)[2].order_id
         IN IF id \in fails THEN <<[order_id |-> id, ok |-> FALSE]>>
            ELSE <<[order_id |-> id, ok |-> TRUE]>>
                 \o cancel_each_Stop(Tail(orders), fails)

\* One cancel loop: cancel_order is called for every order of the list; the
\* calls whose order id is in fails return an error, which is logged.
RECURSIVE cancel_each(_, _)
cancel_each(orders, fails) ==
    IF orders = <<>> THEN <<>>
    ELSE LET id == Head(orders)[2].order_id
         IN <<[order_id |-> id, ok |-> id \notin fails]>>
            \o cancel_each(Tail(orders), fails)

\* A mixed reconciliation logged as a complete one.
mixed_reconciliation_Complete(opp, r) ==
    IF r.filled # <<>> THEN <<log_reconciliation(opp, r.filled, FALSE)>> ELSE <<>>

\* The reconciliation rows of a mixed execution.
mixed_reconciliation(opp, r) ==
    IF r.filled # <<>> THEN <<log_reconciliation(opp, r.filled, TRUE)>> ELSE <<>>

\* No call of the client is under way.
ClientIdle ==
    /\ method = "none"
    /\ path = ""
    /\ requests = <<>>
    /\ attempt = 0
    /\ sent = 0
    /\ statuses = <<>>
    /\ retry_afters = <<>>
    /\ waits = <<>>
    /\ returned = None

\* None of the parts kept aside is running.
AsideIdle ==
    /\ throttle = <<>>
    /\ pager = <<>>
    /\ series_cache = <<>>
    /\ main_loop = <<>>
    /\ executor = <<>>

NextPc(rest) == IF rest = <<>> THEN "scan" ELSE "dispatch"

\* The dates the clock can show when it is read next.
ClockReadings == {d \in {now, now + 1} : d <= MaxDay}

Init ==
    /\ dry_run \in BOOLEAN
    /\ feed \in Feeds
    /\ limits = RiskLimits_new(0)
    /\ now = 0
    /\ pc = "scan"
    /\ opps = <<>>
    /\ result = NoResult
    /\ posts = <<>>
    /\ deletes = <<>>
    /\ alerts = <<>>
    /\ opp_log = <<>>
    /\ recon_log = <<>>
    /\ reaction = "none"
    /\ event = <<>>
    /\ detector_runs = <<>>
    /\ input = <<>>
    /\ output = <<>>
    /\ ClientIdle
    /\ AsideIdle

\* An event passes the structural gates: its order books are fetched and the
\* detector is run.
ScanEvent ==
    /\ pc = "scan"
    /\ \E markets \in Events(feed) :
          /\ event' = markets
          /\ detector_runs' = event_detector_runs(markets)
          /\ opps' = event_opps(markets)
          /\ pc' = NextPc(opps')
    /\ posts' = <<>>
    /\ deletes' = <<>>
    /\ alerts' = <<>>
    /\ opp_log' = <<>>
    /\ recon_log' = <<>>
    /\ reaction' = "none"
    /\ UNCHANGED <<dry_run, feed, offVars, limits, now, result>>

\* if dry_run { log_opportunity(opp, false); continue; }
DryRunBody(d) ==
    /\ now' = d
    /\ opp_log' = <<log_opportunity(Head(opps), FALSE)>>
    /\ posts' = <<>>
    /\ deletes' = <<>>
    /\ alerts' = <<>>
    /\ recon_log' = <<>>
    /\ reaction' = "dry_run"
    /\ opps' = Tail(opps)
    /\ pc' = NextPc(opps')
    /\ UNCHANGED <<dry_run, feed, event, detector_runs, offVars,
                    limits, result>>

\* if let Some(reason) = limits.check() { log, alert, continue }
BlockedBody(d) ==
    LET chk == check(limits, d)
    IN /\ now' = d
       /\ limits' = chk.limits
       /\ opp_log' = <<log_opportunity(Head(opps), FALSE)>>
       /\ alerts' = <<[kind |-> "RISK LIMIT", reason |-> chk.reason[1]]>>
       /\ posts' = <<>>
       /\ deletes' = <<>>
       /\ recon_log' = <<>>
       /\ reaction' = "blocked"
       /\ opps' = Tail(opps)
       /\ pc' = NextPc(opps')
       /\ UNCHANGED <<dry_run, feed, event, detector_runs, offVars,
                    result>>

\* log_opportunity(opp, true); execute_arb(client, opp, position_size).
\* execute_arb has no failing return: the Err arm of the match is dead.
ExecuteBody(d) ==
    LET chk == check(limits, d)
        opp == Head(opps)
    IN /\ now' = d
       /\ limits' = chk.limits
       /\ opp_log' = <<log_opportunity(opp, TRUE)>>
       /\ posts' = OrderRequests(opp, Config.position_size)
       /\ \E replies \in [1..Len(opp.brackets) -> ReplyKinds] :
             result' = execute_arb(opp, Config.position_size, replies)
       /\ deletes' = <<>>
       /\ alerts' = <<>>
       /\ recon_log' = <<>>
       /\ reaction' = "executing"
       /\ pc' = "react"
       /\ UNCHANGED <<dry_run, feed, event, detector_runs, offVars,
                    opps>>

\* A dry run that logs and then falls through to the limiter.
DispatchDryRun_FallThrough ==
    /\ pc = "dispatch"
    /\ dry_run
    /\ \E d \in ClockReadings :
          IF check(limits, d).reason # None THEN BlockedBody(d) ELSE ExecuteBody(d)

DispatchDryRun ==
    /\ pc = "dispatch"
    /\ dry_run
    /\ \E d \in ClockReadings : DryRunBody(d)

DispatchBlocked ==
    /\ pc = "dispatch"
    /\ ~dry_run
    /\ \E d \in ClockReadings : check(limits, d).reason # None /\ BlockedBody(d)

DispatchExecute ==
    /\ pc = "dispatch"
    /\ ~dry_run
    /\ \E d \in ClockReadings : check(limits, d).reason = None /\ ExecuteBody(d)

\* The order count is added to daily_orders before the outcome is looked at.
counted(l, r) == [l EXCEPT !.daily_orders = @ + order_count(r)]

ReactFullyFilled ==
    /\ pc = "react"
    /\ is_fully_filled(result)
    /\ limits' = fully_filled_limits(counted(limits, result), Head(opps))
    /\ recon_log' = <<log_reconciliation(Head(opps), result.filled, FALSE)>>
    /\ reaction' = "fully_filled"
    /\ result' = NoResult
    /\ opps' = Tail(opps)
    /\ pc' = NextPc(opps')
    /\ UNCHANGED <<dry_run, feed, event, detector_runs, offVars,
                    now, posts, deletes, alerts, opp_log>>

ReactTotalFailure ==
    /\ pc = "react"
    /\ ~is_fully_filled(result)
    /\ is_total_failure(result)
    /\ limits' = counted(limits, result)
    /\ alerts' = <<[kind |-> "TOTAL FAILURE", reason |-> "none"]>>
    /\ reaction' = "total_failure"
    /\ result' = NoResult
    /\ opps' = Tail(opps)
    /\ pc' = NextPc(opps')
    /\ UNCHANGED <<dry_run, feed, event, detector_runs, offVars,
                    now, posts, deletes, opp_log, recon_log>>

ReactMixed ==
    /\ pc = "react"
    /\ ~is_fully_filled(result)
    /\ ~is_total_failure(result)
    /\ limits' = mixed_limits(counted(limits, result), result)
    /\ \E fails \in SUBSET (1..Len(posts)) :
          deletes' = cancel_each(result.resting, fails)
                        \o cancel_each(result.other, fails)
    /\ recon_log' = mixed_reconciliation(Head(opps), result)
    /\ alerts' = <<[kind |-> "PARTIAL FILL", reason |-> "none"]>>
    /\ reaction' = "mixed"
    /\ result' = NoResult
    /\ opps' = Tail(opps)
    /\ pc' = NextPc(opps')
    /\ UNCHANGED <<dry_run, feed, event, detector_runs, offVars,
                    now, posts, opp_log>>

Next ==
    \/ ScanEvent
    \/ DispatchDryRun
    \/ DispatchBlocked
    \/ DispatchExecute
    \/ ReactFullyFilled
    \/ ReactTotalFailure
    \/ ReactMixed

Spec == Init /\ [][Next]_vars

\* ------------------------------------------------------------- functions
\* Each function below is applied on its own: the argument is drawn from a
\* bounded set, one step computes the return value, the scheduler stands by.

\* The scan stands by.
SchedulerIdle ==
    /\ dry_run = TRUE
    /\ feed = "long"
    /\ limits = RiskLimits_new(0)
    /\ now = 0
    /\ pc = "scan"
    /\ opps = <<>>
    /\ result = NoResult
    /\ posts = <<>>
    /\ deletes = <<>>
    /\ alerts = <<>>
    /\ opp_log = <<>>
    /\ recon_log = <<>>
    /\ reaction = "none"
    /\ event = <<>>
    /\ detector_runs = <<>>

BenchInit(inputs) ==
    /\ SchedulerIdle
    /\ input \in inputs
    /\ output = None
    /\ ClientIdle
    /\ AsideIdle

\* ---- detect_arb

\* The most brackets of an event the detector is given.
MaxBrackets == 4

Tickers == <<"A", "B", "C", "D", "E", "F">>

AskPrices == {10, 20, 25, 40}

BidPrices == {0, 30, 60}

Depths == {0, 4, 5}

PositionSizes == {4, 5}

\* The depths of the first bracket, no side and yes side: one of them
\* sufficient at every size, or both the same.
DepthPairs ==
    {pair \in Depths \X Depths : pair[1] = 5 \/ pair[2] = 5 \/ pair[1] = pair[2]}

\* The floors of the configuration: the profit floor or the ROI floor is
\* raised, not both.
Floors ==
    { [min_net_profit_cents |-> 10, min_roi_pct |-> [num |-> 1, den |-> 1]],
      [min_net_profit_cents |-> 53, min_roi_pct |-> [num |-> 1, den |-> 1]],
      [min_net_profit_cents |-> 10, min_roi_pct |-> [num |-> 15, den |-> 1]] }

\* n bracket quotes: any asks, one bid on every bracket, and on each side the
\* depth of the first bracket drawn, the others holding 5 contracts.
BracketQuotes(asks, bid, depth_no, depth_yes) ==
    [i \in 1..Len(asks) |->
        [ticker |-> Tickers[i], yes_ask_cents |-> asks[i], yes_bid_cents |-> bid,
         depth_at_no |-> IF i = 1 THEN depth_no ELSE 5,
         depth_at_yes |-> IF i = 1 THEN depth_yes ELSE 5]]

DetectorInputs ==
    { [quotes |-> BracketQuotes(asks, bid, depths[1], depths[2]),
       position_size |-> ps,
       min_net_profit_cents |-> floors.min_net_profit_cents,
       min_roi_pct |-> floors.min_roi_pct] :
         asks \in UNION {[1..n -> AskPrices] : n \in 2..MaxBrackets},
         bid \in BidPrices, depths \in DepthPairs, ps \in PositionSizes,
         floors \in Floors }

DetectorInit == BenchInit(DetectorInputs)

ApplyDetectArb ==
    /\ output = None
    /\ output' = Some(detect_arb(input.quotes, input.position_size,
                                 input.min_net_profit_cents, input.min_roi_pct))
    /\ UNCHANGED <<schedVars, clientVars, asideVars, input>>

DetectorNext == ApplyDetectArb

DetectorSpec == DetectorInit /\ [][DetectorNext]_vars

\* ---- quote_from_orderbook

\* The most levels on a side of an order book.
MaxLevels == 3

LevelPrices == {40, 50}

LevelQuantities == {3, 10}

PriceLevels == {Level(p, q) : p \in LevelPrices, q \in LevelQuantities}

BookSides == UNION {[1..n -> PriceLevels] : n \in 0..MaxLevels}

QuoteInputs == {[yes |-> yes, no |-> no] : yes \in BookSides, no \in BookSides}

QuoteInit == BenchInit(QuoteInputs)

ApplyQuoteFromOrderbook ==
    /\ output = None
    /\ output' = Some(quote_from_orderbook("T", input))
    /\ UNCHANGED <<schedVars, clientVars, asideVars, input>>

QuoteNext == ApplyQuoteFromOrderbook

QuoteSpec == QuoteInit /\ [][QuoteNext]_vars

\* ---- taker_fee_cents

\* The most contracts a fee is computed for.
MaxContracts == 5

FeeInputs ==
    {[contracts |-> c, price_cents |-> p] : c \in 0..MaxContracts, p \in -1..101}

FeeInit == BenchInit(FeeInputs)

ApplyTakerFeeCents ==
    /\ output = None
    /\ output' = Some(taker_fee_cents(input.contracts, input.price_cents))
    /\ UNCHANGED <<schedVars, clientVars, asideVars, input>>

FeeNext == ApplyTakerFeeCents

FeeSpec == FeeInit /\ [][FeeNext]_vars

\* ---- build_order_request

OrderAsks == {35, 42, 50, 60}

OrderBids == {18, 20, 40, 50}

BuildInputs ==
    { [bracket |-> [ticker |-> "T", yes_ask_cents |-> ask, yes_bid_cents |-> bid,
                    depth_at_no |-> 100, depth_at_yes |-> 100],
       direction |-> d, position_size |-> ps] :
         ask \in OrderAsks, bid \in OrderBids, d \in {"Long", "Short"},
         ps \in 0..MaxContracts }

BuildInit == BenchInit(BuildInputs)

\* The request is built and serialized into the body of the POST.
ApplyBuildOrderRequest ==
    /\ output = None
    /\ output' = Some(to_value(build_order_request(input.bracket, input.direction,
                                                   input.position_size)))
    /\ UNCHANGED <<schedVars, clientVars, asideVars, input>>

BuildNext == ApplyBuildOrderRequest

BuildSpec == BuildInit /\ [][BuildNext]_vars

\* ------------------------------------------------------------- client
\* One call of get, post or cancel_order, a step per request of its retry
\* loop.  Waits are in seconds.

Methods == {"GET", "POST", "DELETE"}

\* A POST retried as often as a GET.
max_retries_PostAsGet(m) == IF m = "DELETE" THEN 2 ELSE 3

max_retries(m) == IF m = "GET" THEN 3 ELSE 2

\* The cap of the exponential back-off, in seconds.
backoff_cap(m) == IF m = "GET" THEN 10 ELSE 5

\* Retry-After headers of a 429: absent, not a number, or seconds.
RetryAfterHeaders ==
    { [kind |-> "absent", secs |-> 0], [kind |-> "text", secs |-> 0],
      [kind |-> "secs", secs |-> 0], [kind |-> "secs", secs |-> 7],
      [kind |-> "secs", secs |-> -1] }

\* parse_retry_after: the header as seconds, None when absent or not a
\* number.  Duration::from_secs_f64 panics on a negative number.
parse_retry_after(h) == IF h.kind = "secs" THEN Some(h.secs) ELSE None

parse_retry_after_panics(h) == h.kind = "secs" /\ h.secs < 0

\* The sleep before the next attempt.
retry_wait(m, n, h) ==
    LET base == 2 ^ n
    IN unwrap_or(parse_retry_after(h), IF base < backoff_cap(m) THEN base
                                       ELSE backoff_cap(m))

\* What the call returns when the last attempt is answered 429.
rate_limited(m) == IF m = "DELETE" THEN "Ok" ELSE "Err: rate limited"

\* What the call returns on a status other than 429; parses tells whether
\* the body of a success deserializes.
answered(m, status, parses) ==
    IF m = "DELETE" THEN "Ok"
    ELSE IF status < 200 \/ status > 299 THEN "Err: status"
    ELSE IF parses THEN "Ok" ELSE "Err: parse"

\* The paths the client methods pass to get, post and cancel_order.
Paths(m) ==
    IF m = "GET"
    THEN {"/series", "/series?cursor=c1", "/markets/M1/orderbook?depth=5"}
    ELSE IF m = "POST" THEN {"/portfolio/orders"}
    ELSE {"/portfolio/orders/o1"}

base_url == "https://exchange"

api_key_id == "key-id"

\* Readings of KalshiAuth::timestamp_ms.
TimestampsMs == {1000, 1001}

\* A number as its decimal string.
to_string(n) == [decimal |-> n]

\* A signature that names GET whatever the method.
sign_Get(timestamp_ms, m, p) ==
    [base64 |-> [message |-> <<to_string(timestamp_ms), "GET", p>>]]

\* KalshiAuth::sign: base64 of the signature of the message
\* timestamp, method, path, one after the other.
sign(timestamp_ms, m, p) ==
    [base64 |-> [message |-> <<to_string(timestamp_ms), m, p>>]]

\* KalshiAuth::headers, ts being its reading of the clock.
headers(ts, m, p) ==
    << <<"KALSHI-ACCESS-KEY", api_key_id>>,
       <<"KALSHI-ACCESS-TIMESTAMP", to_string(ts)>>,
       <<"KALSHI-ACCESS-SIGNATURE", sign(ts, m, p)>> >>

\* The request of one attempt: the url is base_url followed by the path.
Request(m, p, ts) ==
    [method |-> m, url |-> <<base_url, p>>, headers |-> headers(ts, m, p)]

\* An attempt builds its headers anew and then its request.
Attempt ==
    \E ts \in TimestampsMs :
        requests' = Append(requests, Request(method, path, ts))

ClientInit == BenchInit({None})

Call ==
    /\ method = "none"
    /\ method' \in Methods
    /\ path' \in Paths(method')
    /\ UNCHANGED <<schedVars, benchVars, asideVars, requests, attempt, sent,
                    statuses, retry_afters, waits, returned>>

InFlight == method # "none" /\ returned = None

\* req.send() fails: the `?` returns the error.
SendFails ==
    /\ InFlight
    /\ Attempt
    /\ sent' = sent + 1
    /\ returned' = Some("Err: send")
    /\ UNCHANGED <<schedVars, benchVars, asideVars, method, path, attempt,
                    statuses, retry_afters, waits>>

\* A response with status 429.
Send429 ==
    /\ InFlight
    /\ Attempt
    /\ sent' = sent + 1
    /\ statuses' = Append(statuses, 429)
    /\ \E h \in RetryAfterHeaders :
          /\ retry_afters' = Append(retry_afters, h)
          /\ IF attempt = max_retries(method)
             THEN /\ returned' = Some(rate_limited(method))
                  /\ UNCHANGED <<attempt, waits>>
             ELSE IF parse_retry_after_panics(h)
             THEN /\ returned' = Some("panic")
                  /\ UNCHANGED <<attempt, waits>>
             ELSE /\ waits' = Append(waits, retry_wait(method, attempt, h))
                  /\ attempt' = attempt + 1
                  /\ UNCHANGED returned
    /\ UNCHANGED <<schedVars, benchVars, asideVars, method, path>>

\* A response with any other status.
SendOther ==
    /\ InFlight
    /\ Attempt
    /\ sent' = sent + 1
    /\ \E status \in {200, 500} : \E parses \in BOOLEAN :
          /\ statuses' = Append(statuses, status)
          /\ returned' = Some(answered(method, status, parses))
    /\ UNCHANGED <<schedVars, benchVars, asideVars, method, path, attempt,
                    retry_afters, waits>>

ClientNext ==
    \/ Call
    \/ SendFails
    \/ Send429
    \/ SendOther

ClientSpec == ClientInit /\ [][ClientNext]_vars

\* ---- the gates of scan_cycle on an event

\* The most markets of an event.
MaxMarkets == 3

MarketStatuses == {"active", "closed"}

\* What get_orderbook gives for a market: a book with a quote, a book with
\* an empty no side, a failure.
BookKinds == {"quoted", "empty", "failed"}

Market(i, status, kind) ==
    [ticker |-> Tickers[i], status |-> status, ok |-> kind # "failed",
     orderbook |-> IF kind = "quoted"
                   THEN [yes |-> <<>>, no |-> <<Level(50, 10)>>]
                   ELSE [yes |-> <<>>, no |-> <<>>]]

MarketLists ==
    UNION {{[i \in 1..n |-> Market(i, st[i], kd[i])] :
               st \in [1..n -> MarketStatuses], kd \in [1..n -> BookKinds]} :
           n \in 0..MaxMarkets}

\* [scanner] min_brackets and max_brackets.
ScannerConfigs ==
    {[min_brackets |-> 2, max_brackets |-> 2],
     [min_brackets |-> 2, max_brackets |-> 3],
     [min_brackets |-> 1, max_brackets |-> 2]}

GateInputs ==
    {[event |-> [mutually_exclusive |-> mx, markets |-> ms], scanner |-> sc] :
        mx \in BOOLEAN, ms \in MarketLists, sc \in ScannerConfigs}

\* A filter that lets every market through.
active_markets_All(markets) == markets

\* event.markets filtered on status == "active".
active_markets(markets) == SelectSeq(markets, LAMBDA m : m.status = "active")

\* The get_orderbook calls of the loop over the markets, from market i on:
\* the loop breaks at the first failure and at the first book without quote.
RECURSIVE orderbook_requests(_, _)
orderbook_requests(markets, i) ==
    IF i > Len(markets) THEN <<>>
    ELSE <<markets[i].ticker>> \o
         (IF ~markets[i].ok
             \/ quote_from_orderbook(markets[i].ticker, markets[i].orderbook) = None
          THEN <<>>
          ELSE orderbook_requests(markets, i + 1))

\* The body of the loop over the events, down to the call of detect_arb:
\* the order books asked for and the quote sets given to the detector.
scan_event(ev, scanner) ==
    LET am == active_markets(ev.markets)
        skipped == [counted |-> FALSE, requests |-> <<>>, detector_runs |-> <<>>]
    IN IF ~ev.mutually_exclusive THEN skipped
       ELSE IF Len(am) < scanner.min_brackets THEN skipped
       ELSE IF Len(am) > scanner.max_brackets THEN skipped
       ELSE [counted |-> TRUE,
             requests |-> orderbook_requests(am, 1),
             detector_runs |-> event_detector_runs(am)]

GateInit == BenchInit(GateInputs)

ApplyScanEvent ==
    /\ output = None
    /\ input \in GateInputs
    /\ output' = Some(scan_event(input.event, input.scanner))
    /\ UNCHANGED <<schedVars, clientVars, asideVars, input>>

GateNext == ApplyScanEvent

GateSpec == GateInit /\ [][GateNext]_vars

\* ------------------------------------------------------------- read throttle
\* The clones of one KalshiClient calling get: they share last_read and its
\* mutex.  A step per stretch of code between two awaits; time is in
\* seconds and passes between the steps.

MaxClock == 4

Clones == {1, 2}

\* KalshiClient::read_delay, in seconds.
read_delay == 2

\* The POST and DELETE requests followed.
MaxWrites == 1

\* The methods of post and cancel_order.
WriteMethods == {"POST", "DELETE"}

\* Retry-After headers that do not make parse_retry_after panic.
ThrottleHeaders == {h \in RetryAfterHeaders : ~parse_retry_after_panics(h)}

exceptThrottle ==
    <<schedVars, benchVars, clientVars, pager, series_cache, main_loop,
      executor>>

ThrottleInit ==
    /\ SchedulerIdle
    /\ input = None
    /\ output = None
    /\ ClientIdle
    /\ pager = <<>>
    /\ series_cache = <<>>
    /\ main_loop = <<>>
    /\ executor = <<>>
    /\ throttle = [clock |-> 0, last_read |-> 0, locked |-> FALSE,
                   pc |-> [c \in Clones |-> "idle"],
                   wake |-> [c \in Clones |-> 0],
                   attempt |-> [c \in Clones |-> 0],
                   gets |-> <<>>,
                   writes |-> <<>>]

Tick ==
    /\ throttle # <<>>
    /\ throttle.clock < MaxClock
    /\ throttle' = [throttle EXCEPT !.clock = @ + 1]
    /\ UNCHANGED exceptThrottle

\* The request of attempt n of clone c starts now.
StartGet(t, c, n) ==
    [t EXCEPT !.gets = Append(@, [clone |-> c, at |-> t.clock, attempt |-> n]),
              !.attempt[c] = n,
              !.pc[c] = "awaiting"]

\* get enters throttle_read and takes the mutex; with nothing to wait for it
\* stamps last_read, leaves throttle_read and sends attempt 0.
ThrottleRead(c) ==
    /\ throttle # <<>>
    /\ throttle.pc[c] = "idle"
    /\ ~throttle.locked
    /\ LET elapsed == throttle.clock - throttle.last_read
       IN IF elapsed < read_delay
          THEN throttle' = [throttle EXCEPT
                               !.locked = TRUE,
                               !.pc[c] = "throttled",
                               !.wake[c] = throttle.clock + (read_delay - elapsed)]
          ELSE throttle' = StartGet([throttle EXCEPT !.last_read = throttle.clock],
                                    c, 0)
    /\ UNCHANGED exceptThrottle

\* The sleep of throttle_read is over: stamp, release, send attempt 0.
Throttled(c) ==
    /\ throttle # <<>>
    /\ throttle.pc[c] = "throttled"
    /\ throttle.clock >= throttle.wake[c]
    /\ throttle' = StartGet([throttle EXCEPT !.last_read = throttle.clock,
                                             !.locked = FALSE], c, 0)
    /\ UNCHANGED exceptThrottle

\* The response is a 429: the call fails on the last attempt, else sleeps.
Respond429(c) ==
    /\ throttle # <<>>
    /\ throttle.pc[c] = "awaiting"
    /\ IF throttle.attempt[c] = max_retries("GET")
       THEN throttle' = [throttle EXCEPT !.pc[c] = "idle", !.attempt[c] = 0]
       ELSE \E h \in ThrottleHeaders :
               throttle' = [throttle EXCEPT
                               !.pc[c] = "backoff",
                               !.wake[c] = throttle.clock
                                   + retry_wait("GET", throttle.attempt[c], h)]
    /\ UNCHANGED exceptThrottle

\* Any other response ends the call.
RespondOther(c) ==
    /\ throttle # <<>>
    /\ throttle.pc[c] = "awaiting"
    /\ throttle' = [throttle EXCEPT !.pc[c] = "idle", !.attempt[c] = 0]
    /\ UNCHANGED exceptThrottle

\* A retry that passes the throttle again when the delay has run out.
Retry_Throttled(c) ==
    /\ throttle # <<>>
    /\ throttle.pc[c] = "backoff"
    /\ throttle.clock >= throttle.wake[c]
    /\ ~throttle.locked
    /\ throttle.clock - throttle.last_read >= read_delay
    /\ throttle' = StartGet([throttle EXCEPT !.last_read = throttle.clock],
                            c, throttle.attempt[c] + 1)
    /\ UNCHANGED exceptThrottle

\* The back-off sleep is over: `continue` sends the next attempt.
Retry(c) ==
    /\ throttle # <<>>
    /\ throttle.pc[c] = "backoff"
    /\ throttle.clock >= throttle.wake[c]
    /\ throttle' = StartGet(throttle, c, throttle.attempt[c] + 1)
    /\ UNCHANGED exceptThrottle

\* post or cancel_order sends an attempt: neither calls throttle_read.
Write(c) ==
    /\ throttle # <<>>
    /\ throttle.pc[c] = "idle"
    /\ Len(throttle.writes) < MaxWrites
    /\ \E m \in WriteMethods :
          throttle' = [throttle EXCEPT
                          !.writes = Append(@, [clone |-> c, method |-> m])]
    /\ UNCHANGED exceptThrottle

ThrottleNext ==
    \/ Tick
    \/ \E c \in Clones : ThrottleRead(c)
    \/ \E c \in Clones : Throttled(c)
    \/ \E c \in Clones : Respond429(c)
    \/ \E c \in Clones : RespondOther(c)
    \/ \E c \in Clones : Retry(c)
    \/ \E c \in Clones : Write(c)

ThrottleSpec == ThrottleInit /\ [][ThrottleNext]_vars

\* ------------------------------------------------------------- pagination
\* One call of list_series or get_events, a step per page requested.

MaxPages == 3

PagedCalls == {"list_series", "get_events"}

\* The series_ticker argument of get_events.
series_ticker == "S1"

\* The items a page can hold, and the cursors a response can carry.
PageItems == {<<>>, <<"A">>, <<"B">>, <<"A", "B">>}

PageCursors == {None, Some(""), Some("c1"), Some("c2")}

\* The path of the next page, by the pieces format! puts together.
page_path(f, cursor) ==
    IF f = "list_series"
    THEN IF cursor = None
         THEN <<"/series">>
         ELSE <<"/series?cursor=", cursor[1]>>
    ELSE IF cursor = None
         THEN <<"/events?series_ticker=", series_ticker,
                "&with_nested_markets=true&status=open">>
         ELSE <<"/events?series_ticker=", series_ticker,
                "&with_nested_markets=true&status=open", "&cursor=", cursor[1]>>

\* A loop that goes on after an empty cursor.
has_more_Empty(cursor) == cursor # None

\* `Some(c) if !c.is_empty()`: the loop goes on.
has_more(cursor) == cursor # None /\ cursor[1] # ""

exceptPager ==
    <<schedVars, benchVars, clientVars, throttle, series_cache, main_loop,
      executor>>

PageInit ==
    /\ SchedulerIdle
    /\ input = None
    /\ output = None
    /\ ClientIdle
    /\ throttle = <<>>
    /\ series_cache = <<>>
    /\ main_loop = <<>>
    /\ executor = <<>>
    /\ pager \in {[f |-> f, cursor |-> None, all |-> <<>>, paths |-> <<>>,
                   pages |-> <<>>, returned |-> None] : f \in PagedCalls}

\* get answers with a page: extend the list, then follow the cursor or
\* break and return the list.
PageOk ==
    /\ pager # <<>>
    /\ pager.returned = None
    /\ \E items \in PageItems : \E c \in PageCursors :
          /\ has_more(c) => Len(pager.pages) + 1 < MaxPages
          /\ pager' =
                [pager EXCEPT
                    !.paths = Append(@, page_path(pager.f, pager.cursor)),
                    !.pages = Append(@, [items |-> items, cursor |-> c]),
                    !.all = @ \o items,
                    !.cursor = IF has_more(c) THEN c ELSE @,
                    !.returned = IF has_more(c) THEN None
                                 ELSE Some([kind |-> "Ok",
                                            list |-> pager.all \o items])]
    /\ UNCHANGED exceptPager

\* get fails: the `?` returns the error.
PageErr ==
    /\ pager # <<>>
    /\ pager.returned = None
    /\ pager' = [pager EXCEPT
                    !.paths = Append(@, page_path(pager.f, pager.cursor)),
                    !.returned = Some([kind |-> "Err"])]
    /\ UNCHANGED exceptPager

PageNext ==
    \/ PageOk
    \/ PageErr

PageSpec == PageInit /\ [][PageNext]_vars

\* ------------------------------------------------------------- series cache
\* SeriesCache and the calls of get_or_refresh, with a clock in seconds.

\* series_cache_secs of the configuration.
TtlSecs == {0, 2}

\* What list_series can answer.
SeriesLists == {<<>>, <<"S1">>, <<"S1", "S2">>}

ListSeriesReplies ==
    {[kind |-> "Ok", list |-> l] : l \in SeriesLists} \cup {[kind |-> "Err"]}

\* A cache that lasts one second longer.
is_stale_Late(fetched_at, ttl, clock) ==
    fetched_at = None \/ clock - fetched_at[1] > ttl

\* SeriesCache::is_stale, read at time clock.
is_stale(fetched_at, ttl, clock) ==
    fetched_at = None \/ clock - fetched_at[1] >= ttl

exceptSeriesCache ==
    <<schedVars, benchVars, clientVars, throttle, pager, main_loop, executor>>

\* SeriesCache::new: empty and stale.
SeriesCacheInit ==
    /\ SchedulerIdle
    /\ input = None
    /\ output = None
    /\ ClientIdle
    /\ throttle = <<>>
    /\ pager = <<>>
    /\ main_loop = <<>>
    /\ executor = <<>>
    /\ series_cache \in
          {[clock |-> 0, ttl |-> t, series |-> <<>>, fetched_at |-> None,
            pc |-> "idle", before |-> None, reply |-> None, result |-> None,
            failed |-> FALSE]
              : t \in TtlSecs}

Elapse ==
    /\ series_cache # <<>>
    /\ series_cache.clock < MaxClock
    /\ series_cache' = [series_cache EXCEPT !.clock = @ + 1]
    /\ UNCHANGED exceptSeriesCache

\* A cache that takes the time of a failed refresh for a fetch.
refresh_failed_Stamped(called, c) ==
    [called EXCEPT
        !.failed = TRUE,
        !.fetched_at = Some(called.clock),
        !.result = IF c.series = <<>>
                   THEN Some([kind |-> "Err"])
                   ELSE Some([kind |-> "Ok", list |-> c.series])]

\* The Err arm of get_or_refresh: the error with an empty cache, else a
\* warning and the cached list.  failed tells that the last refresh failed.
refresh_failed(called, c) ==
    [called EXCEPT
        !.failed = TRUE,
        !.result = IF c.series = <<>>
                   THEN Some([kind |-> "Err"])
                   ELSE Some([kind |-> "Ok", list |-> c.series])]

\* One call of get_or_refresh; list_series, when called, takes d seconds.
get_or_refresh ==
    /\ series_cache # <<>>
    /\ series_cache.pc = "idle"
    /\ LET c == series_cache
           called == [c EXCEPT !.pc = "returned",
                               !.before = Some([series |-> c.series,
                                                fetched_at |-> c.fetched_at,
                                                at |-> c.clock,
                                                failed |-> c.failed])]
       IN IF is_stale(c.fetched_at, c.ttl, c.clock)
          THEN \E r \in ListSeriesReplies : \E d \in {0, 1} :
                  /\ c.clock + d <= MaxClock
                  /\ series_cache' =
                        IF r.kind = "Ok"
                        THEN [called EXCEPT
                                 !.clock = @ + d,
                                 !.reply = Some(r),
                                 !.series = r.list,
                                 !.fetched_at = Some(c.clock + d),
                                 !.failed = FALSE,
                                 !.result = Some([kind |-> "Ok", list |-> r.list])]
                        ELSE refresh_failed([called EXCEPT !.clock = @ + d,
                                                           !.reply = Some(r)],
                                            c)
          ELSE series_cache' =
                  [called EXCEPT
                      !.result = Some([kind |-> "Ok", list |-> c.series])]
    /\ UNCHANGED exceptSeriesCache

\* The caller is done with the result.
Released ==
    /\ series_cache # <<>>
    /\ series_cache.pc = "returned"
    /\ series_cache' = [series_cache EXCEPT !.pc = "idle", !.before = None,
                                            !.reply = None, !.result = None]
    /\ UNCHANGED exceptSeriesCache

SeriesCacheNext ==
    \/ Elapse
    \/ get_or_refresh
    \/ Released

SeriesCacheSpec == SeriesCacheInit /\ [][SeriesCacheNext]_vars

\* ------------------------------------------------------------- main loop
\* The loop of main, the task that waits for the interrupt, and the client
\* calls of scan_cycle with the way each of their failures is handled.  A
\* failure here is a rate limit that lasted through the retries.

\* scanner.interval_secs of the configuration.
interval_secs == 2

\* The most series a list holds.
MaxSeries == 2

\* A scan cycle that gives up on any failed call.
on_failure_Propagate(call, cached) == "error"

\* What scan_cycle does when a client call fails; cached is the length of
\* the list SeriesCache holds.
on_failure(call, cached) ==
    IF call = "list_series"
    THEN IF cached = 0 THEN "error" ELSE "stale list"
    ELSE IF call = "get_events" THEN "skip series"
    ELSE IF call = "get_orderbook" THEN "skip event"
    ELSE "api failure"

\* A sleep loop that does not look at the flag.
sleep_breaks_Never(running) == FALSE

\* `if !running.load(..) { break; }`
sleep_breaks(running) == ~running

exceptMainLoop ==
    <<schedVars, benchVars, clientVars, throttle, pager, series_cache,
      executor>>

MainInit ==
    /\ SchedulerIdle
    /\ input = None
    /\ output = None
    /\ ClientIdle
    /\ throttle = <<>>
    /\ pager = <<>>
    /\ series_cache = <<>>
    /\ executor = <<>>
    /\ main_loop = [running |-> TRUE, pc |-> "while", slept |-> 0,
                    call |-> "none", left |-> 0, fetched |-> FALSE,
                    cached |-> 0, limited |-> {}, result |-> None,
                    logged |-> FALSE]

\* The interrupt arrives: the side task stores false.
Signal ==
    /\ main_loop # <<>>
    /\ main_loop.running
    /\ main_loop' = [main_loop EXCEPT !.running = FALSE]
    /\ UNCHANGED exceptMainLoop

\* `while running.load(..)`: start a cycle, or leave the loop.
While ==
    /\ main_loop # <<>>
    /\ main_loop.pc = "while"
    /\ main_loop' =
          IF main_loop.running
          THEN [main_loop EXCEPT !.pc = "cycle", !.call = "list_series",
                                 !.limited = {}, !.result = None,
                                 !.logged = FALSE, !.slept = 0]
          ELSE [main_loop EXCEPT !.pc = "done"]
    /\ UNCHANGED exceptMainLoop

\* scan_cycle returns res; main logs an error and goes to sleep.
EndCycle(m, res) ==
    [m EXCEPT !.pc = "sleep", !.call = "none", !.left = 0, !.result = Some(res),
              !.logged = (res = "Err")]

\* The loop over the series goes to the next one, or ends.
NextSeries(m) ==
    IF m.left > 1
    THEN [m EXCEPT !.left = @ - 1, !.call = "get_events"]
    ELSE EndCycle(m, "Ok")

\* The call failed: what the cycle does about it.
Failed(m) ==
    LET n == [m EXCEPT !.limited = @ \cup {<<m.call, m.cached>>}]
        todo == on_failure(m.call, m.cached)
    IN IF todo = "error" THEN EndCycle(n, "Err")
       ELSE IF todo = "stale list"
       THEN [n EXCEPT !.left = m.cached, !.call = "get_events"]
       ELSE NextSeries(n)

\* series_cache.get_or_refresh: the cached list, or a list just fetched.
CycleSeries ==
    /\ main_loop # <<>>
    /\ main_loop.pc = "cycle"
    /\ main_loop.call = "list_series"
    /\ \/ /\ main_loop.fetched
          /\ main_loop' =
                IF main_loop.cached = 0 THEN EndCycle(main_loop, "Ok")
                ELSE [main_loop EXCEPT !.left = main_loop.cached,
                                       !.call = "get_events"]
       \/ \E n \in 0..MaxSeries :
             main_loop' =
                IF n = 0
                THEN EndCycle([main_loop EXCEPT !.fetched = TRUE,
                                                !.cached = 0], "Ok")
                ELSE [main_loop EXCEPT !.fetched = TRUE, !.cached = n,
                                       !.left = n, !.call = "get_events"]
       \/ main_loop' = Failed(main_loop)
    /\ UNCHANGED exceptMainLoop

\* client.get_events: an event to quote, nothing to quote, or a failure.
CycleEvents ==
    /\ main_loop # <<>>
    /\ main_loop.pc = "cycle"
    /\ main_loop.call = "get_events"
    /\ \/ main_loop' = [main_loop EXCEPT !.call = "get_orderbook"]
       \/ main_loop' = NextSeries(main_loop)
       \/ main_loop' = Failed(main_loop)
    /\ UNCHANGED exceptMainLoop

\* client.get_orderbook: an opportunity to execute, none, or a failure.
CycleOrderbook ==
    /\ main_loop # <<>>
    /\ main_loop.pc = "cycle"
    /\ main_loop.call = "get_orderbook"
    /\ \/ main_loop' = [main_loop EXCEPT !.call = "create_order"]
       \/ main_loop' = NextSeries(main_loop)
       \/ main_loop' = Failed(main_loop)
    /\ UNCHANGED exceptMainLoop

\* execute_arb: create_order answers, or fails and is an api failure.
CycleOrder ==
    /\ main_loop # <<>>
    /\ main_loop.pc = "cycle"
    /\ main_loop.call = "create_order"
    /\ \/ main_loop' = NextSeries(main_loop)
       \/ main_loop' = Failed(main_loop)
    /\ UNCHANGED exceptMainLoop

\* The head of the sleep loop: all slept, flag down, or one more second.
SleepCheck ==
    /\ main_loop # <<>>
    /\ main_loop.pc = "sleep"
    /\ main_loop' =
          IF main_loop.slept = interval_secs \/ sleep_breaks(main_loop.running)
          THEN [main_loop EXCEPT !.pc = "while"]
          ELSE [main_loop EXCEPT !.pc = "sleeping"]
    /\ UNCHANGED exceptMainLoop

\* sleep(1 s) is over.
SleepDone ==
    /\ main_loop # <<>>
    /\ main_loop.pc = "sleeping"
    /\ main_loop' = [main_loop EXCEPT !.pc = "sleep", !.slept = @ + 1]
    /\ UNCHANGED exceptMainLoop

MainSteps ==
    \/ While
    \/ CycleSeries
    \/ CycleEvents
    \/ CycleOrderbook
    \/ CycleOrder
    \/ SleepCheck
    \/ SleepDone

MainNext ==
    \/ Signal
    \/ MainSteps

\* The main task is always scheduled again, and every client call and every
\* sleep ends; the interrupt need never come.
MainSpec == MainInit /\ [][MainNext]_vars /\ WF_vars(MainSteps)

\* ------------------------------------------------------------- execute_arb by steps
\* One call of execute_arb: the loop that spawns a task per bracket, the
\* tasks, each ending when its create_order returns or when it panics, and
\* the loop that awaits the handles in the order they were pushed.

MaxLegs == 3

ExecOpps ==
    {[direction |-> d,
      brackets |-> BracketQuotes([i \in 1..n |-> 40], 30, 5, 5)] :
        d \in {"Long", "Short"}, n \in 2..MaxLegs}

\* A spawn loop that hands over to the await loop after every task.
after_spawn_Each(spawned, n) == "await"

\* Where execute_arb is once `spawned` handles of n are pushed.
after_spawn(spawned, n) == IF spawned = n THEN "await" ELSE "spawn"

exceptExecutor ==
    <<schedVars, benchVars, clientVars, throttle, pager, series_cache,
      main_loop>>

ExecInit ==
    /\ SchedulerIdle
    /\ input = None
    /\ output = None
    /\ ClientIdle
    /\ throttle = <<>>
    /\ pager = <<>>
    /\ series_cache = <<>>
    /\ main_loop = <<>>
    /\ executor \in
          {[opp |-> o, pc |-> "spawn", tasks |-> <<>>, awaited |-> 0,
            acc |-> [NoResult EXCEPT !.direction = o.direction],
            errors |-> <<>>, returned |-> None] : o \in ExecOpps}

\* tokio::spawn of the task of the next bracket; the handle is pushed.
SpawnLeg ==
    /\ executor # <<>>
    /\ executor.pc = "spawn"
    /\ Len(executor.tasks) < Len(executor.opp.brackets)
    /\ executor' =
          [executor EXCEPT
              !.tasks = Append(@, "running"),
              !.pc = after_spawn(Len(executor.tasks) + 1,
                                 Len(executor.opp.brackets))]
    /\ UNCHANGED exceptExecutor

\* The task of leg i ends: create_order has returned, or the task panics.
LegEnds(i) ==
    /\ executor # <<>>
    /\ i \in 1..Len(executor.tasks)
    /\ executor.tasks[i] = "running"
    /\ \E kind \in ReplyKinds \cup CreateOrderErrors :
          executor' = [executor EXCEPT !.tasks[i] = kind]
    /\ UNCHANGED exceptExecutor

\* The error! line the await loop writes for a leg that ended as kind, if
\* any.
error_line(kind, ticker) ==
    IF kind = "panic" THEN <<[message |-> "Task panicked"]>>
    ELSE IF kind \in CreateOrderErrors
    THEN <<[message |-> "Order failed", ticker |-> ticker]>>
    ELSE <<>>

\* handle.await of the next handle returns and its leg is classified;
\* after the last one the result is returned.
AwaitLeg ==
    /\ executor # <<>>
    /\ executor.pc = "await"
    /\ LET i == executor.awaited + 1
           n == Len(executor.opp.brackets)
           reqs == OrderRequests(executor.opp, Config.position_size)
       IN /\ i <= Len(executor.tasks)
          /\ executor.tasks[i] # "running"
          /\ LET acc == Classify(SubSeq(reqs, 1, i), executor.tasks, i,
                                 executor.acc)
             IN executor' =
                   [executor EXCEPT
                       !.awaited = i,
                       !.acc = acc,
                       !.errors = @ \o error_line(executor.tasks[i],
                                                  reqs[i].ticker),
                       !.pc = IF i = n THEN "done" ELSE @,
                       !.returned = IF i = n THEN Some(acc) ELSE @]
    /\ UNCHANGED exceptExecutor

ExecNext ==
    \/ SpawnLeg
    \/ \E i \in 1..MaxLegs : LegEnds(i)
    \/ AwaitLeg

ExecSpec == ExecInit /\ [][ExecNext]_vars

\* ------------------------------------------------------------- claims

\* The three outcomes of an ExecutionResult, spelled out on its lists.
FullyFilledResult(r) ==
    r.filled # <<>> /\ r.resting = <<>> /\ r.other = <<>> /\ r.api_failures = <<>>

TotalFailureResult(r) == r.filled = <<>> /\ r.resting = <<>> /\ r.other = <<>>

MixedResult(r) == ~FullyFilledResult(r) /\ ~TotalFailureResult(r)

OrderIds(orders) == [i \in 1..Len(orders) |-> orders[i][2].order_id]

CancelledIds == [i \in 1..Len(deletes) |-> deletes[i].order_id]

PartialFillAlert == [kind |-> "PARTIAL FILL", reason |-> "none"]

TotalFailureAlert == [kind |-> "TOTAL FAILURE", reason |-> "none"]

\* C1: in dry-run no create_order and no cancel_order request is ever issued,
\* whatever the detector finds, and the risk limiter is never consulted:
\* open_arbs, daily_pnl_cents, daily_orders and today keep the values they
\* were constructed with, also when the date changes.
C1_DryRunNoWrites ==
    dry_run =>
        /\ posts = <<>>
        /\ deletes = <<>>
        /\ limits = RiskLimits_new(0)
        /\ pc # "react"

\* A dry run that logged an opportunity on a later day than the limiter's.
C1_Witness ==
    /\ dry_run
    /\ reaction = "dry_run"
    /\ opp_log # <<>>
    /\ now # limits.today

\* Whether limit name holds on counters l.
LimitHit(name, l) ==
    \/ name = "MAX_OPEN_ARBS" /\ l.open_arbs >= MAX_OPEN_ARBS
    \/ name = "MAX_DAILY_LOSS" /\ l.daily_pnl_cents <= -MAX_DAILY_LOSS_CENTS
    \/ name = "MAX_DAILY_ORDERS" /\ l.daily_orders >= MAX_DAILY_ORDERS

LimitNames == {"MAX_OPEN_ARBS", "MAX_DAILY_LOSS", "MAX_DAILY_ORDERS"}

\* C2: outside dry-run, each opportunity is dispatched through the limiter:
\* if one of the three limits is hit (on the counters as the check leaves
\* them) the opportunity is blocked, one alert naming a limit that is hit is
\* sent and no create_order is issued; otherwise it is executed, with one
\* create_order per bracket.
C2_RiskGate ==
    [][(pc = "dispatch" /\ ~dry_run) =>
          IF \E name \in LimitNames : LimitHit(name, limits')
          THEN /\ reaction' = "blocked"
               /\ pc' # "react"
               /\ posts' = <<>>
               /\ Len(alerts') = 1
               /\ alerts'[1].kind = "RISK LIMIT"
               /\ alerts'[1].reason \in LimitNames
               /\ LimitHit(alerts'[1].reason, limits')
          ELSE /\ pc' = "react"
               /\ alerts' = <<>>
               /\ Len(posts') = Len(Head(opps).brackets)]_vars

\* An opportunity blocked by the daily order limit alone.
C2_Witness ==
    /\ reaction = "blocked"
    /\ alerts # <<>>
    /\ alerts[1].reason = "MAX_DAILY_ORDERS"
    /\ limits.open_arbs < MAX_OPEN_ARBS
    /\ limits.daily_pnl_cents > -MAX_DAILY_LOSS_CENTS
    /\ limits.daily_orders >= MAX_DAILY_ORDERS
    /\ posts = <<>>

\* C3: on every risk check, if the date read differs from today the daily
\* counters are reset to 0 and today is set to the date read, open_arbs
\* staying as it is; if the date is the same no counter changes.
C3_DayRollover ==
    [][(pc = "dispatch" /\ ~dry_run) =>
          IF now' # limits.today
          THEN /\ limits'.daily_pnl_cents = 0
               /\ limits'.daily_orders = 0
               /\ limits'.today = now'
               /\ limits'.open_arbs = limits.open_arbs
          ELSE limits' = limits]_vars

\* Right after a check on the next day: open arbs kept, daily counters at 0.
C3_Witness ==
    /\ pc = "react"
    /\ limits.today = 1
    /\ limits.open_arbs >= 1
    /\ limits.daily_orders = 0
    /\ limits.daily_pnl_cents = 0

\* C4: every ExecutionResult is in exactly one of the three outcomes (fully
\* filled, total failure, mixed), the predicates of the code agree with
\* them, and the scheduler takes the reaction of that outcome and no other.
C4_OneOutcome ==
    [][pc = "react" =>
          /\ ~(FullyFilledResult(result) /\ TotalFailureResult(result))
          /\ is_fully_filled(result) <=> FullyFilledResult(result)
          /\ is_total_failure(result) <=> TotalFailureResult(result)
          /\ reaction' = IF FullyFilledResult(result) THEN "fully_filled"
                         ELSE IF TotalFailureResult(result) THEN "total_failure"
                         ELSE "mixed"]_vars

\* An execution with one leg filled and one failed was handled as mixed.
C4_Witness ==
    /\ reaction = "mixed"
    /\ Len(posts) = 2
    /\ Len(recon_log) = 1
    /\ Len(recon_log[1].order_ids) = 1
    /\ deletes = <<>>

\* C5: on a fully filled outcome open_arbs goes up by exactly 1, the
\* opportunity's expected net profit is added to daily_pnl_cents, one
\* reconciliation row not marked incomplete is logged for the filled orders,
\* and no cancel is issued.
C5_FullyFilled ==
    [][(pc = "react" /\ FullyFilledResult(result)) =>
          /\ limits'.open_arbs = limits.open_arbs + 1
          /\ limits'.daily_pnl_cents
                = limits.daily_pnl_cents + Head(opps).net_profit_cents
          /\ Len(recon_log') = 1
          /\ recon_log'[1].note = ""
          /\ recon_log'[1].order_ids = OrderIds(result.filled)
          /\ deletes' = <<>>]_vars

\* The first fully filled arbitrage of the session: net profit 32 booked.
C5_Witness ==
    /\ reaction = "fully_filled"
    /\ limits.open_arbs = 1
    /\ limits.daily_pnl_cents = 32
    /\ limits.daily_orders = 2
    /\ Len(recon_log) = 1

C7_MixedLoss ==
    [][(pc = "react" /\ MixedResult(result)) =>
          LET f == result.filled
              Cost(o) == (IF o.yes_price = <<>> THEN 0 ELSE o.yes_price[1])
                            * (IF o.count = <<>> THEN 0 ELSE o.count[1])
          IN /\ limits'.daily_pnl_cents
                   = limits.daily_pnl_cents - SeqSum([i \in 1..Len(f) |-> Cost(f[i][2])])
             /\ limits'.open_arbs = limits.open_arbs]_vars

\* One filled leg at 45 cents, 5 contracts, beside a resting one: 225 lost.
C7_Witness ==
    /\ reaction = "mixed"
    /\ Len(deletes) = 1
    /\ limits.daily_pnl_cents = -225
    /\ limits.daily_orders = 2
    /\ limits.open_arbs = 0

\* C8: whatever the outcome, an executed opportunity raises daily_orders by
\* exactly |filled| + |resting| + |other|; failed legs are not counted.
C8_OrderCount ==
    [][pc = "react" =>
          limits'.daily_orders
              = limits.daily_orders + Len(result.filled) + Len(result.resting)
                   + Len(result.other)]_vars

\* Two legs were dispatched, one order came back (it rests and is
\* cancelled), and daily_orders went from 0 to 1.
C8_Witness ==
    /\ reaction = "mixed"
    /\ Len(posts) = 2
    /\ Len(deletes) = 1
    /\ recon_log = <<>>
    /\ limits.daily_orders = 1
    /\ limits.today = 0

\* C9: on a total failure no cancel is issued, the counters stay as the risk
\* check left them, and one total-failure alert is sent.
C9_TotalFailure ==
    [][(pc = "react" /\ TotalFailureResult(result)) =>
          /\ deletes' = <<>>
          /\ limits' = limits
          /\ alerts' = <<TotalFailureAlert>>
          /\ recon_log' = <<>>]_vars

\* A total failure after a fully filled arbitrage: the counters are kept.
C9_Witness ==
    /\ reaction = "total_failure"
    /\ alerts = <<TotalFailureAlert>>
    /\ Len(posts) = 2
    /\ limits.open_arbs = 1
    /\ limits.daily_orders = 2

EventUnquotable(markets) ==
    \E i \in 1..Len(markets) : ~markets[i].ok \/ markets[i].orderbook.no = <<>>

\* C11: when an order-book fetch of the event fails, or a fetched book has an
\* empty no side, the event is skipped: the detector is not run on it (and
\* is only ever run on the quotes of all the markets of an event), it yields
\* no opportunity and no order, and the scan is at the next event.
C11_EventSkipped ==
    /\ \A i \in 1..Len(detector_runs) : Len(detector_runs[i]) = Len(event)
    /\ EventUnquotable(event) =>
           /\ detector_runs = <<>>
           /\ opps = <<>>
           /\ posts = <<>>
           /\ deletes = <<>>
           /\ reaction = "none"
           /\ pc = "scan"

\* In a session with an open arbitrage, an event whose first book gave a
\* quote and whose second fetch failed was skipped.
C11_Witness ==
    /\ Len(event) = 2
    /\ event[1].ok
    /\ event[1].orderbook.no # <<>>
    /\ ~event[2].ok
    /\ limits.open_arbs >= 1
    /\ pc = "scan"
    /\ opps = <<>>

\* The price of a bracket in a direction: the ask for LONG, the bid for SHORT.
LegPrice(q, d) == IF d = "Long" THEN q.yes_ask_cents ELSE q.yes_bid_cents

\* The depth a direction needs on a bracket: no for LONG, yes for SHORT.
LegDepth(q, d) == IF d = "Long" THEN q.depth_at_no ELSE q.depth_at_yes

\* The figures of direction d on quotes qs at size ps, by the LONG/SHORT
\* formulae, the fee being the sum of the per-leg ceilings.
Figures(qs, ps, d) ==
    LET sum == SeqSum([i \in 1..Len(qs) |-> LegPrice(qs[i], d)])
        fees == SeqSum([i \in 1..Len(qs) |-> taker_fee_cents(ps, LegPrice(qs[i], d))])
        gross == IF d = "Long" THEN (100 - sum) * ps ELSE (sum - 100) * ps
        cost == IF d = "Long" THEN sum * ps + fees ELSE 100 * ps
    IN [sum |-> sum, fees |-> fees, gross |-> gross, net |-> gross - fees,
        cost |-> cost,
        min_depth |-> SetMin({LegDepth(qs[i], d) : i \in 1..Len(qs)})]

\* The three gates on figures f for the arguments a of the detector.
GatesPass(f, a) ==
    /\ f.net >= a.min_net_profit_cents
    /\ IF f.cost > 0
       THEN f.net * 100 * a.min_roi_pct.den >= a.min_roi_pct.num * f.cost
       ELSE 0 >= a.min_roi_pct.num
    /\ f.min_depth >= a.position_size

\* The opportunities of direction d among opps.
Emitted(found, d) == {i \in 1..Len(found) : found[i].direction = d}

Directions == {"Long", "Short"}

Asks(qs) == [i \in 1..Len(qs) |-> qs[i].yes_ask_cents]

\* C12: detect_arb emits a direction (once) iff its three gates pass, with
\* the figures of the LONG/SHORT formulae and the fee summed leg by leg; asks
\* 10,25,40,20 at size 5 have fees 26, net -1 and give no LONG; asks
\* 20,25,40 with no bid give exactly one opportunity, LONG with net 53.
C12_DetectGates ==
    output # None =>
        LET found == output[1]
            qs == input.quotes
        IN /\ \A d \in Directions :
                LET f == Figures(qs, input.position_size, d)
                IN /\ Cardinality(Emitted(found, d)) = IF GatesPass(f, input) THEN 1 ELSE 0
                   /\ \A i \in Emitted(found, d) :
                         /\ found[i].sum_cents = f.sum
                         /\ found[i].total_fees_cents = f.fees
                         /\ found[i].net_profit_cents = f.net
                         /\ found[i].brackets = qs
           /\ (Asks(qs) = <<10, 25, 40, 20>> /\ input.position_size = 5) =>
                 /\ Figures(qs, 5, "Long").fees = 26
                 /\ Figures(qs, 5, "Long").net = -1
                 /\ Emitted(found, "Long") = {}
           /\ (/\ Asks(qs) = <<20, 25, 40>>
               /\ input.position_size = 5
               /\ qs[1].yes_bid_cents = 0
               /\ qs[1].depth_at_no = 5
               /\ input.min_roi_pct.num = 1) =>
                 /\ Len(found) = 1
                 /\ found[1].direction = "Long"
                 /\ found[1].net_profit_cents = 53

\* Asks 20,25,40 at size 5 and a floor of 53 cents: LONG is emitted, just.
C12_Witness ==
    /\ output # None
    /\ Asks(input.quotes) = <<20, 25, 40>>
    /\ input.position_size = 5
    /\ input.min_net_profit_cents = 53
    /\ Len(output[1]) = 1
    /\ output[1][1].direction = "Long"
    /\ output[1][1].net_profit_cents = 53

\* C13: every opportunity detect_arb emits has gross profit
\* (100 - sum_cents) * position_size when LONG and
\* (sum_cents - 100) * position_size when SHORT, and net profit equal to the
\* gross profit less the total fees.
C13_AccountingIdentity ==
    output # None =>
        \A i \in 1..Len(output[1]) :
            LET opp == output[1][i]
            IN /\ opp.direction \in Directions
               /\ opp.direction = "Long" =>
                     opp.gross_profit_cents
                         = (100 - opp.sum_cents) * input.position_size
               /\ opp.direction = "Short" =>
                     opp.gross_profit_cents
                         = (opp.sum_cents - 100) * input.position_size
               /\ opp.net_profit_cents
                     = opp.gross_profit_cents - opp.total_fees_cents

\* A LONG and a SHORT opportunity were emitted, with fees on both.
C13_Witness ==
    /\ output # None
    /\ Len(output[1]) = 2
    /\ output[1][1].direction = "Long"
    /\ output[1][2].direction = "Short"
    /\ output[1][1].total_fees_cents > 0
    /\ output[1][2].total_fees_cents > 0
    /\ output[1][2].gross_profit_cents > 0

\* quotes with the depth on the side direction d does not read set to depth
\* on every bracket.
WithOtherDepth(qs, d, depth) ==
    [i \in 1..Len(qs) |->
        IF d = "Long" THEN [qs[i] EXCEPT !.depth_at_yes = depth]
        ELSE [qs[i] EXCEPT !.depth_at_no = depth]]

\* C14: whether a direction is emitted does not depend on the depth of the
\* other side (LONG reads depth_at_no only, SHORT depth_at_yes only), so a
\* zero depth there never blocks it; nor does it depend on the other
\* direction being emitted: when the gates of both pass, both are emitted.
C14_GateIndependence ==
    output # None =>
        LET found == output[1]
            Rerun(qs) == detect_arb(qs, input.position_size,
                                    input.min_net_profit_cents, input.min_roi_pct)
            Pass(d) == GatesPass(Figures(input.quotes, input.position_size, d), input)
        IN /\ \A d \in Directions : \A depth \in Depths :
                (Emitted(Rerun(WithOtherDepth(input.quotes, d, depth)), d) # {})
                    <=> (Emitted(found, d) # {})
           /\ (Pass("Long") /\ Pass("Short")) =>
                 /\ Len(found) = 2
                 /\ found[1].direction = "Long"
                 /\ found[2].direction = "Short"

\* LONG was emitted although the yes side of the first bracket is empty
\* (which blocks SHORT, profitable otherwise).
C14_Witness ==
    /\ output # None
    /\ input.quotes[1].depth_at_yes = 0
    /\ input.quotes[1].yes_bid_cents = 60
    /\ Len(output[1]) = 1
    /\ output[1][1].direction = "Long"

\* The highest price among levels (a non-empty side).
BestPrice(levels) ==
    CHOOSE p \in {levels[i].price : i \in 1..Len(levels)} :
        \A i \in 1..Len(levels) : levels[i].price <= p

\* The quantities of all the levels at price p, duplicates included.
RECURSIVE QuantityAt(_, _)
QuantityAt(levels, p) ==
    IF levels = <<>> THEN 0
    ELSE (IF Head(levels).price = p THEN Head(levels).quantity ELSE 0)
            + QuantityAt(Tail(levels), p)

\* C15: quote_from_orderbook returns a quote iff the no side is non-empty;
\* the quote has yes_ask_cents = 100 - the highest no price, yes_bid_cents =
\* the highest yes price (0 when yes is empty), and as depths the summed
\* quantities of all the levels at the highest price of the side (0 for an
\* empty yes side), duplicate price levels included.
C15_QuoteExtraction ==
    output # None =>
        LET quote == output[1]
        IN /\ (quote # None) <=> (input.no # <<>>)
           /\ quote # None =>
                 LET q == quote[1]
                 IN /\ q.yes_ask_cents = 100 - BestPrice(input.no)
                    /\ q.depth_at_no = QuantityAt(input.no, BestPrice(input.no))
                    /\ IF input.yes = <<>>
                       THEN q.yes_bid_cents = 0 /\ q.depth_at_yes = 0
                       ELSE /\ q.yes_bid_cents = BestPrice(input.yes)
                            /\ q.depth_at_yes
                                  = QuantityAt(input.yes, BestPrice(input.yes))

\* A no side with the best price on two levels (3 and 10 contracts at 50,
\* after a level at 40) and an empty yes side: depth 13, bid 0.
C15_Witness ==
    /\ output # None
    /\ output[1] # None
    /\ input.yes = <<>>
    /\ input.no = <<Level(40, 10), Level(50, 3), Level(50, 10)>>
    /\ output[1][1].yes_ask_cents = 50
    /\ output[1][1].depth_at_no = 13
    /\ output[1][1].yes_bid_cents = 0
    /\ output[1][1].depth_at_yes = 0

\* levels in the order perm gives.
Reordered(levels, perm) == [i \in 1..Len(levels) |-> levels[perm[i]]]

\* C16: reordering the levels of the no side, or of the yes side, of any
\* order book gives the same result, quote or none (any reordering of both
\* sides is one of each, and the books are closed under reordering).
C16_PermutationInvariant ==
    output # None =>
        /\ \A perm \in Permutations(1..Len(input.no)) :
              quote_from_orderbook("T", [input EXCEPT !.no = Reordered(@, perm)])
                  = output[1]
        /\ \A perm \in Permutations(1..Len(input.yes)) :
              quote_from_orderbook("T", [input EXCEPT !.yes = Reordered(@, perm)])
                  = output[1]

\* A quote from a book whose sides are both not in descending order.
C16_Witness ==
    /\ output # None
    /\ output[1] # None
    /\ Len(input.no) = 3
    /\ Len(input.yes) = 2
    /\ input.no[1].price < input.no[2].price
    /\ input.yes[1].price < input.yes[2].price
    /\ output[1][1].yes_ask_cents = 50
    /\ output[1][1].yes_bid_cents = 50

\* The fee table: <<contracts, price, fee>>.
FeeTable ==
    { <<2, 5, 1>>, <<2, 10, 2>>, <<2, 50, 4>>, <<5, 5, 2>>, <<5, 10, 4>>,
      <<5, 20, 6>>, <<5, 25, 7>>, <<5, 33, 8>>, <<5, 50, 9>> }

\* C17: taker_fee_cents(C, P) is 0 when P <= 0, P >= 100 or C = 0, and
\* otherwise (7*C*P*(100-P) + 9999) div 10000, the least number of cents not
\* below 7*C*P*(100-P)/10000; the fees of the table are as listed.
C17_FeeFormula ==
    output # None =>
        LET C == input.contracts
            P == input.price_cents
            fee == output[1]
            n == 7 * C * P * (100 - P)
        IN /\ IF P <= 0 \/ P >= 100 \/ C = 0
              THEN fee = 0
              ELSE /\ fee = (n + 9999) \div 10000
                   /\ 10000 * fee >= n
                   /\ 10000 * (fee - 1) < n
           /\ \A row \in FeeTable : (C = row[1] /\ P = row[2]) => fee = row[3]

\* 5 contracts at 33 cents: 77490 / 10000 rounded up to 8.
C17_Witness ==
    /\ output = Some(8)
    /\ input.contracts = 5
    /\ input.price_cents = 33

\* C18: the fee is at least 1 whenever 0 < P < 100 and C >= 1, does not go
\* down when C goes up at the same P, and is the same at P and at 100 - P.
C18_FeeShape ==
    output # None =>
        LET C == input.contracts
            P == input.price_cents
            fee == output[1]
        IN /\ (0 < P /\ P < 100 /\ C >= 1) => fee >= 1
           /\ \A C2 \in C..MaxContracts : taker_fee_cents(C2, P) >= fee
           /\ taker_fee_cents(C, 100 - P) = fee

\* One contract at 99 cents: 693 / 10000 is charged 1 cent, as at 1 cent.
C18_Witness ==
    /\ output = Some(1)
    /\ input.contracts = 1
    /\ input.price_cents = 99

\* C19: the order request sent for a bracket is a limit order on side yes
\* with count = position_size and no_price null; LONG buys at the bracket's
\* yes_ask_cents, SHORT sells at its yes_bid_cents, neither at the other
\* quote; the body carries the order type under "type", not "order_type".
C19_OrderRequest ==
    output # None =>
        LET body == output[1]
            b == input.bracket
        IN /\ DOMAIN body
                 = {"ticker", "action", "side", "type", "count", "yes_price",
                    "no_price"}
           /\ "order_type" \notin DOMAIN body
           /\ body.ticker = b.ticker
           /\ body.type = "limit"
           /\ body.side = "yes"
           /\ body.count = input.position_size
           /\ body.no_price = JsonNull
           /\ input.direction = "Long" =>
                 /\ body.action = "buy"
                 /\ body.yes_price = JsonNumber(b.yes_ask_cents)
                 /\ b.yes_bid_cents # b.yes_ask_cents =>
                       body.yes_price # JsonNumber(b.yes_bid_cents)
           /\ input.direction = "Short" =>
                 /\ body.action = "sell"
                 /\ body.yes_price = JsonNumber(b.yes_bid_cents)
                 /\ b.yes_bid_cents # b.yes_ask_cents =>
                       body.yes_price # JsonNumber(b.yes_ask_cents)

\* A SHORT leg of 5 contracts on a bracket quoted 18 bid, 42 ask: sell at 18.
C19_Witness ==
    /\ output # None
    /\ input.direction = "Short"
    /\ input.bracket.yes_ask_cents = 42
    /\ input.bracket.yes_bid_cents = 18
    /\ input.position_size = 5
    /\ output[1].action = "sell"
    /\ output[1].yes_price = JsonNumber(18)
    /\ output[1].count = 5

\* C20: a GET sends at most 4 requests (3 retries), a POST or DELETE at most
\* 3 (2 retries); after the last of them the call has ended, and a GET or
\* POST answered 429 every time has ended with a rate-limited error; a
\* response other than 429 is the last of its call, which ends with it.
C20_BoundedRetry ==
    method # "none" =>
        LET most == IF method = "GET" THEN 4 ELSE 3
        IN /\ sent <= most
           /\ Len(waits) <= most - 1
           /\ sent = most => returned # None
           /\ (/\ Len(statuses) = most
               /\ \A i \in 1..Len(statuses) : statuses[i] = 429
               /\ method \in {"GET", "POST"}) =>
                 returned = Some("Err: rate limited")
           /\ \A i \in 1..Len(statuses) :
                 statuses[i] # 429 => (i = Len(statuses) /\ returned # None)

\* A POST answered 429 three times: two back-offs, then the error.
C20_Witness ==
    /\ method = "POST"
    /\ statuses = <<429, 429, 429>>
    /\ sent = 3
    /\ Len(waits) = 2
    /\ returned = Some("Err: rate limited")

\* The wait the back-off rule gives after the 429 of attempt n (from 0) of
\* method m whose Retry-After header is h.
ExpectedWait(m, n, h) ==
    IF h.kind = "secs" THEN h.secs
    ELSE LET cap == IF m = "GET" THEN 10 ELSE 5
         IN IF 2 ^ n < cap THEN 2 ^ n ELSE cap

\* C21 as stated: every 429 that is not the answer to the last attempt is
\* followed by a wait, of the Retry-After seconds when the header is present
\* and a number, and of min(2^attempt s, cap) otherwise (attempt from 0, cap
\* 10 s for GET, 5 s for POST and DELETE).  Fails: a negative Retry-After
\* is a number, and the call panics on it instead of waiting.
C21_Original ==
    method # "none" =>
        \A i \in 1..Len(retry_afters) :
            i <= (IF method = "GET" THEN 3 ELSE 2) =>
                /\ Len(waits) >= i
                /\ waits[i] = ExpectedWait(method, i - 1, retry_afters[i])

\* The call has ended on a response whose status is 429 or not a success.
EndedOnRefusal ==
    /\ returned # None
    /\ sent > 0
    /\ Len(statuses) = sent
    /\ (statuses[sent] < 200 \/ statuses[sent] > 299)

\* C22 as stated: cancel_order returns success when the DELETE is still
\* rate limited after its retries and when the server answers with a
\* non-success status; no 429 and no non-success response to a DELETE makes
\* the call fail.  Fails: a 429 with a negative Retry-After before the last
\* attempt makes cancel_order panic.
C22_Original ==
    (method = "DELETE" /\ EndedOnRefusal) => returned = Some("Ok")

\* The request r carries the header name with value v.
Carries(r, name, v) ==
    \E i \in 1..Len(r.headers) :
        r.headers[i][1] = name /\ r.headers[i][2] = v

\* C28: every attempt of a GET, POST or DELETE, retries after a 429
\* included, sends a request to the path of the call that carries the key
\* id, a timestamp, and the signature of that timestamp, the method and
\* the path with its query.
C28_SignedRequests ==
    /\ Len(requests) = sent
    /\ \A k \in 1..Len(requests) :
          LET r == requests[k]
          IN /\ r.method = method
             /\ r.url = <<base_url, path>>
             /\ Carries(r, "KALSHI-ACCESS-KEY", api_key_id)
             /\ \E ts \in TimestampsMs :
                   /\ Carries(r, "KALSHI-ACCESS-TIMESTAMP", to_string(ts))
                   /\ Carries(r, "KALSHI-ACCESS-SIGNATURE",
                              [base64 |-> [message |->
                                  <<to_string(ts), r.method, r.url[2]>>]])

\* A DELETE retried after a 429, the retry signed at another time.
C28_Witness ==
    /\ method = "DELETE"
    /\ Len(requests) = 3
    /\ statuses = <<429, 429, 200>>
    /\ requests[1] # requests[3]

\* C23 as stated: the steps of the read throttle all precede the send of
\* a GET, so the starts of any two GET requests of the client, clones
\* used at the same time included, are at least read_delay apart.  Fails:
\* the request a GET sends again after a 429 does not pass the throttle.
C23_Original ==
    throttle # <<>> =>
        \A i, j \in 1..Len(throttle.gets) :
            i < j => throttle.gets[j].at - throttle.gets[i].at >= read_delay

\* The items of the pages ps, one page after the other.
RECURSIVE Concatenation(_)
Concatenation(ps) ==
    IF ps = <<>> THEN <<>>
    ELSE Concatenation(SubSeq(ps, 1, Len(ps) - 1)) \o ps[Len(ps)].items

\* The cursor of a page is absent or empty.
LastPage(pg) == pg.cursor = None \/ pg.cursor = Some("")

\* C24: list_series and get_events request the first page without a cursor
\* and every later page with the cursor of the response before it; they go
\* on while the responses carry a non-empty cursor, stop at the first page
\* whose cursor is absent or empty and return the items of all pages in
\* the order requested; a page that fails fails the call, with no list.
C24_Pagination ==
    pager # <<>> =>
        LET n == Len(pager.pages)
            failed == Len(pager.paths) > n
        IN /\ Len(pager.paths) \in {n, n + 1}
           /\ \A k \in 1..Len(pager.paths) :
                 pager.paths[k] =
                     page_path(pager.f, IF k = 1 THEN None
                                        ELSE pager.pages[k - 1].cursor)
           /\ \A k \in 1..(n - 1) : ~LastPage(pager.pages[k])
           /\ (pager.returned = None) <=>
                 (~failed /\ (n = 0 \/ ~LastPage(pager.pages[n])))
           /\ failed => pager.returned = Some([kind |-> "Err"])
           /\ (~failed /\ n > 0 /\ LastPage(pager.pages[n])) =>
                 pager.returned =
                     Some([kind |-> "Ok", list |-> Concatenation(pager.pages)])

\* get_events returned three pages, the last one with an empty cursor.
C24_Witness ==
    /\ pager # <<>>
    /\ pager.f = "get_events"
    /\ Len(pager.pages) = 3
    /\ pager.pages[3].cursor = Some("")
    /\ pager.returned = Some([kind |-> "Ok", list |-> <<"A", "B", "B", "A">>])

\* C25: a lookup of a cache that is not stale returns the cached list and
\* makes no request; a lookup of a stale cache (never fetched, or fetched
\* ttl or more ago) asks for the list; a list received replaces the cached
\* one, is returned, and fetched_at becomes the time of receipt; a refresh
\* that fails leaves the cache as it was and returns the cached list when it
\* is not empty, the error when it is.
C25_SeriesCache ==
    (series_cache # <<>> /\ series_cache.pc = "returned") =>
        LET c == series_cache
            b == c.before[1]
            stale == b.fetched_at = None \/ b.at - b.fetched_at[1] >= c.ttl
            kept == c.series = b.series /\ c.fetched_at = b.fetched_at
            cached == Some([kind |-> "Ok", list |-> b.series])
        IN /\ ~stale => (c.reply = None /\ kept /\ c.result = cached)
           /\ stale => c.reply # None
           /\ (stale /\ c.reply # None /\ c.reply[1].kind = "Ok") =>
                 /\ c.series = c.reply[1].list
                 /\ c.fetched_at # None
                 /\ c.fetched_at[1] >= b.at
                 /\ c.fetched_at[1] <= c.clock
                 /\ c.result = Some([kind |-> "Ok", list |-> c.reply[1].list])
           /\ (stale /\ c.reply # None /\ c.reply[1].kind = "Err") =>
                 /\ kept
                 /\ c.result = IF b.series = <<>> THEN Some([kind |-> "Err"])
                               ELSE cached

\* A cache fetched exactly ttl ago is stale, its refresh fails, and the
\* stale list is returned.
C25_Witness ==
    /\ series_cache # <<>>
    /\ series_cache.pc = "returned"
    /\ series_cache.ttl = 2
    /\ series_cache.before[1].fetched_at = Some(series_cache.before[1].at - 2)
    /\ series_cache.reply = Some([kind |-> "Err"])
    /\ series_cache.result = Some([kind |-> "Ok", list |-> <<"S1", "S2">>])

CycleEnded == main_loop # <<>> /\ main_loop.result # None

\* C27 as stated: a cycle in which a GET or a POST stayed rate limited ends
\* with an error, which is logged, and the loop goes on.  Fails: a
\* get_events, get_orderbook or create_order that fails is handled on the
\* spot and the cycle ends well.
C27_Original ==
    (CycleEnded /\ main_loop.limited # {}) =>
        /\ main_loop.result = Some("Err")
        /\ main_loop.logged

\* C27, amended: a cycle ends with an error exactly when the refresh of the
\* series list failed with nothing cached; that error is logged, and the
\* loop is left only when running is false.
C27_CycleError ==
    /\ CycleEnded =>
          /\ main_loop.result = Some("Err")
                <=> <<"list_series", 0>> \in main_loop.limited
          /\ main_loop.logged <=> main_loop.result = Some("Err")
    /\ (main_loop # <<>> /\ main_loop.pc = "done") => ~main_loop.running

\* A cycle ended well although get_events and create_order failed in it,
\* and the next sleep is under way.
C27_Witness ==
    /\ CycleEnded
    /\ main_loop.pc = "sleeping"
    /\ main_loop.result = Some("Ok")
    /\ \E n \in 1..MaxSeries :
          {<<"get_events", n>>, <<"create_order", n>>} \subseteq main_loop.limited

\* The number of brackets of the opportunity under execution.
Legs == Len(executor.opp.brackets)

\* C29: execute_arb awaits no leg before a task is spawned for every
\* bracket, the tasks end in any order, and the ExecutionResult is
\* returned only when every task has ended and been awaited.
C29_ParallelDispatch ==
    executor # <<>> =>
        /\ (executor.pc # "spawn" \/ executor.awaited > 0) =>
              Len(executor.tasks) = Legs
        /\ \A i \in 1..executor.awaited : executor.tasks[i] # "running"
        /\ executor.returned # None =>
              /\ executor.awaited = Legs
              /\ \A i \in 1..Legs : executor.tasks[i] # "running"

\* All three legs are spawned, none is awaited yet, and the last leg has
\* ended while the first is still running.
C29_Witness ==
    /\ executor # <<>>
    /\ Legs = 3
    /\ executor.pc = "await"
    /\ executor.awaited = 0
    /\ executor.tasks = <<"running", "running", "executed">>

\* The tickers of a list of (ticker, order) pairs.
TickersOf(pairs) == [k \in 1..Len(pairs) |-> pairs[k][1]]

\* The tickers of the four lists of a result, by the name of the list.
ListTickers(r) ==
    [filled |-> TickersOf(r.filled), resting |-> TickersOf(r.resting),
     other |-> TickersOf(r.other), api_failures |-> r.api_failures]

ListNames == {"filled", "resting", "other", "api_failures"}

\* The list of a leg that ended as kind, the kinds in errs being the
\* errors that put a leg in api_failures.
ListFor(kind, errs) ==
    IF kind \in {"executed", "executed_bare"} THEN "filled"
    ELSE IF kind = "resting" THEN "resting"
    ELSE IF kind \in errs THEN "api_failures"
    ELSE IF kind \in CreateOrderErrors \cup {"panic"} THEN "none"
    ELSE "other"

\* The bracket whose ticker is t.
BracketOf(t) ==
    CHOOSE i \in 1..Legs : executor.opp.brackets[i].ticker = t

\* Every awaited leg that did not panic is in the list ListFor gives it and
\* in no other, the lists hold nothing else, and each is in bracket order.
ClassifiedBy(errs) ==
    executor # <<>> =>
        LET lists == ListTickers(executor.acc)
            awaited == 1..executor.awaited
            landed == {i \in awaited : executor.tasks[i] # "panic"}
        IN /\ \A i \in landed : \A name \in ListNames :
                 (\E k \in 1..Len(lists[name]) :
                     lists[name][k] = executor.opp.brackets[i].ticker)
                 <=> name = ListFor(executor.tasks[i], errs)
           /\ Len(lists.filled) + Len(lists.resting) + Len(lists.other)
                 + Len(lists.api_failures) = Cardinality(landed)
           /\ \A name \in ListNames : \A j, k \in 1..Len(lists[name]) :
                 j < k => BracketOf(lists[name][j]) < BracketOf(lists[name][k])
           /\ (executor.returned # None /\ landed = awaited) =>
                 Len(lists.filled) + Len(lists.resting) + Len(lists.other)
                    + Len(lists.api_failures) = Legs

\* C30 as stated: every awaited leg whose task did not panic is in one list
\* only: filled for a success with status executed, resting for a success
\* with status resting, other for a success with another status,
\* api_failures for a failed send or a status that is not a success, and
\* for nothing else; without a panic the lengths add up to the number of
\* brackets, and every list is in bracket order.  Fails: a success whose
\* body is not an order is an api failure too.
C30_Original == ClassifiedBy({"api_error"})

\* C30, amended: as above, with api_failures for every error create_order
\* returns, a success whose body does not parse included.
C30_Classification == ClassifiedBy(CreateOrderErrors)

\* A result of three legs, none of them crashed: a resting order, a success
\* whose body did not parse, and a cancelled order.
C30_Witness ==
    /\ executor # <<>>
    /\ executor.returned # None
    /\ executor.tasks = <<"resting", "parse_error", "canceled">>
    /\ Len(executor.returned[1].resting) = 1
    /\ executor.returned[1].api_failures = <<"B">>
    /\ Len(executor.returned[1].other) = 1

\* The awaited legs whose task panicked.
Crashed == {i \in 1..executor.awaited : executor.tasks[i] = "panic"}

\* C31: a task that panicked is logged and its ticker is in none of the
\* four lists; the legs after it are awaited all the same, every other leg
\* is in a list, and a result is returned once all handles are awaited.
C31_CrashedLeg ==
    executor # <<>> =>
        LET lists == ListTickers(executor.acc)
            panics == SelectSeq(executor.errors,
                                LAMBDA e : e.message = "Task panicked")
        IN /\ Len(panics) = Cardinality(Crashed)
           /\ \A i \in Crashed : \A name \in ListNames :
                 \A k \in 1..Len(lists[name]) :
                     lists[name][k] # executor.opp.brackets[i].ticker
           /\ \A i \in (1..executor.awaited) \ Crashed :
                 \E name \in ListNames : \E k \in 1..Len(lists[name]) :
                     lists[name][k] = executor.opp.brackets[i].ticker
           /\ (executor.awaited = Legs) <=> (executor.returned # None)
           /\ (executor.pc = "await" /\ executor.tasks[executor.awaited + 1] # "running")
                 => ENABLED AwaitLeg

\* The first task of three panicked; the two after it were awaited and a
\* result with them was returned.
C31_Witness ==
    /\ executor # <<>>
    /\ executor.tasks = <<"panic", "executed", "api_error">>
    /\ executor.returned # None
    /\ Len(executor.returned[1].filled) = 1
    /\ executor.returned[1].api_failures = <<"C">>
    /\ executor.errors[1] = [message |-> "Task panicked"]

\* C32 as stated: an opportunity is booked as a complete arbitrage
\* (open_arbs raised, expected net profit added) only when every one of its
\* brackets has an executed order; a leg missing because its task crashed
\* makes the outcome a failure.  Fails: a crashed leg is in no list, and a
\* result whose other legs are all executed passes is_fully_filled.
C32_Original ==
    reaction = "fully_filled" =>
        /\ Len(recon_log) = 1
        /\ Len(recon_log[1].order_ids) = Len(posts)

\* C33: open_arbs never goes down and is never reset, by the risk check, a
\* day rollover or any outcome of an execution; the only step that changes
\* it is the reaction to a fully filled result, which adds 1.
C33_OpenArbsMonotonic ==
    [][\/ limits'.open_arbs = limits.open_arbs
       \/ /\ limits'.open_arbs = limits.open_arbs + 1
          /\ pc = "react"
          /\ FullyFilledResult(result)]_vars

\* open_arbs is still 2 after the day has rolled over and the daily
\* counters were reset.
C33_Witness ==
    /\ limits.open_arbs = 2
    /\ limits.today = 1
    /\ limits.daily_orders = 0
    /\ reaction = "executing"

\* C35: open_arbs is never above MAX_OPEN_ARBS; an execution, the only
\* thing that can raise it, is under way only after a risk check that found
\* it below MAX_OPEN_ARBS.
C35_OpenArbsBound ==
    /\ limits.open_arbs <= MAX_OPEN_ARBS
    /\ pc = "react" => limits.open_arbs < MAX_OPEN_ARBS

\* The fifth arbitrage has just been booked.
C35_Witness ==
    /\ limits.open_arbs = MAX_OPEN_ARBS
    /\ reaction = "fully_filled"

\* C36: from the moment open_arbs is MAX_OPEN_ARBS no create_order and no
\* cancel_order is issued: past the reaction that booked the last
\* arbitrage, which cancels nothing, no execution is under way, and an
\* opportunity is blocked, the alert naming MAX_OPEN_ARBS, on whatever day.
C36_Halted ==
    limits.open_arbs = MAX_OPEN_ARBS =>
        /\ pc # "react"
        /\ deletes = <<>>
        /\ reaction \in {"fully_filled", "none", "blocked"}
        /\ reaction # "fully_filled" => posts = <<>>
        /\ reaction = "blocked" =>
              alerts = <<[kind |-> "RISK LIMIT", reason |-> "MAX_OPEN_ARBS"]>>

\* An opportunity is blocked by MAX_OPEN_ARBS on the day after the fifth
\* arbitrage.
C36_Witness ==
    /\ limits.open_arbs = MAX_OPEN_ARBS
    /\ limits.today = 1
    /\ limits.daily_orders = 0
    /\ reaction = "blocked"
    /\ posts = <<>>

\* C37: an execution is under way only after the daily order gate found
\* daily_orders below MAX_DAILY_ORDERS, and the count of its orders is
\* added afterwards; so daily_orders is never above
\* MAX_DAILY_ORDERS - 1 + max_brackets.
C37_DailyOrdersBound ==
    /\ limits.daily_orders <= MAX_DAILY_ORDERS - 1 + Config.max_brackets
    /\ pc = "react" =>
          /\ limits.daily_orders < MAX_DAILY_ORDERS
          /\ Len(posts) <= Config.max_brackets

\* The execution that passed the gate at 49 orders placed two more.
C37_Witness ==
    /\ limits.daily_orders = MAX_DAILY_ORDERS + 1
    /\ reaction \in {"fully_filled", "mixed"}
    /\ Len(posts) = 2

\* C40: cancel_order is called only in the reaction to a mixed result, and
\* only for orders of its resting and other lists, none of which is an
\* executed order; a fully filled result, a total failure, a blocked
\* opportunity and a dry run issue no cancel.
C40_CancelScope ==
    [][deletes' # <<>> /\ deletes' # deletes =>
          /\ ~dry_run
          /\ pc = "react"
          /\ MixedResult(result)
          /\ LET open == result.resting \o result.other
             IN \A k \in 1..Len(deletes') :
                   /\ \E j \in 1..Len(open) :
                         /\ open[j][2].order_id = deletes'[k].order_id
                         /\ open[j][2].status # "executed"
                   /\ \A j \in 1..Len(result.filled) :
                         result.filled[j][2].order_id # deletes'[k].order_id]_vars

\* A mixed outcome with one leg filled: the other order was cancelled and
\* the filled one was not.
C40_Witness ==
    /\ reaction = "mixed"
    /\ Len(deletes) = 1
    /\ Len(recon_log) = 1
    /\ recon_log[1].order_ids = <<1>>
    /\ deletes[1].order_id = 2

\* C38: a call of get passes the read throttle once, before attempt 0:
\* the step that sends attempt 0 is the one that stamps last_read, a retry
\* is sent from the back-off sleep once its wait is over, whoever holds the
\* mutex and whatever last_read is, and leaves both alone; last_read
\* changes in no other step, and a POST or DELETE is sent with the mutex
\* and last_read untouched.
C38_ThrottleOncePerGet ==
    [][throttle # <<>> =>
          LET started == Len(throttle'.gets) > Len(throttle.gets)
              g == throttle'.gets[Len(throttle'.gets)]
          IN /\ (started /\ g.attempt = 0) =>
                   /\ throttle.pc[g.clone] \in {"idle", "throttled"}
                   /\ throttle'.last_read = throttle.clock
                   /\ ~throttle'.locked
             /\ (started /\ g.attempt > 0) =>
                   /\ throttle.pc[g.clone] = "backoff"
                   /\ throttle.clock >= throttle.wake[g.clone]
                   /\ throttle'.last_read = throttle.last_read
                   /\ throttle'.locked = throttle.locked
             /\ throttle'.last_read # throttle.last_read =>
                   (started /\ g.attempt = 0)
             /\ throttle'.writes # throttle.writes =>
                   /\ throttle'.last_read = throttle.last_read
                   /\ throttle'.locked = throttle.locked]_vars

\* Clone 2 sleeps in throttle_read with the mutex held while clone 1 has
\* sent a retry less than read_delay after its first attempt; clone 2 had
\* sent a POST before.
C38_Witness ==
    /\ throttle # <<>>
    /\ throttle.locked
    /\ throttle.pc[2] = "throttled"
    /\ throttle.gets = <<[clone |-> 1, at |-> 2, attempt |-> 0],
                         [clone |-> 1, at |-> 3, attempt |-> 1]>>
    /\ throttle.last_read = 2
    /\ \E k \in 1..Len(throttle.writes) :
          throttle.writes[k] = [clone |-> 2, method |-> "POST"]

\* C39: a refresh that fails leaves the cached list and fetched_at as they
\* were; from then until a refresh succeeds the cache is stale at every
\* moment, and every lookup asks for the list again.
C39_FailedRefresh ==
    series_cache # <<>> =>
        LET c == series_cache
        IN /\ (c.pc = "returned" /\ c.reply = Some([kind |-> "Err"])) =>
                 /\ c.series = c.before[1].series
                 /\ c.fetched_at = c.before[1].fetched_at
                 /\ c.failed
           /\ c.failed =>
                 (c.fetched_at = None \/ c.clock - c.fetched_at[1] >= c.ttl)
           /\ (c.pc = "returned" /\ c.before[1].failed) => c.reply # None
           /\ (c.failed /\ c.pc = "idle") => ENABLED get_or_refresh

\* A list fetched at 0 and kept two seconds: the refresh failed, and the
\* next lookup asked again and failed again.
C39_Witness ==
    /\ series_cache # <<>>
    /\ series_cache.ttl = 2
    /\ series_cache.pc = "returned"
    /\ series_cache.before[1].failed
    /\ series_cache.reply = Some([kind |-> "Err"])
    /\ series_cache.series = <<"S1", "S2">>
    /\ series_cache.fetched_at = Some(0)
    /\ series_cache.result = Some([kind |-> "Ok", list |-> <<"S1", "S2">>])

\* The tickers of the markets of the event whose status is "active".
ActiveTickers(markets) ==
    {markets[i].ticker : i \in {j \in 1..Len(markets) : markets[j].status = "active"}}

\* C34: order books are asked for, and the detector is run, only on an event
\* that is mutually exclusive and whose count N of markets with status
\* "active" has min_brackets <= N <= max_brackets; the books asked for and
\* the quotes given to the detector are those of active markets only.
C34_Gates ==
    (input \in GateInputs /\ output # None) =>
        LET e == input.event
            act == ActiveTickers(e.markets)
            n == Cardinality(act)
            admitted == /\ e.mutually_exclusive
                        /\ input.scanner.min_brackets <= n
                        /\ n <= input.scanner.max_brackets
            out == output[1]
        IN /\ ~admitted => (out.requests = <<>> /\ out.detector_runs = <<>>)
           /\ admitted => (out.counted /\ out.requests # <<>>)
           /\ \A k \in 1..Len(out.requests) : out.requests[k] \in act
           /\ \A r \in 1..Len(out.detector_runs) :
                 /\ Len(out.detector_runs[r]) = n
                 /\ \A k \in 1..n : out.detector_runs[r][k].ticker \in act

\* A mutually exclusive event with two active markets around a closed one,
\* under bounds of 2 and 2: the two books were asked for and the detector
\* was given their two quotes.
C34_Witness ==
    /\ input \in GateInputs
    /\ output # None
    /\ input.event.mutually_exclusive
    /\ Len(input.event.markets) = 3
    /\ input.event.markets[2].status = "closed"
    /\ input.scanner = [min_brackets |-> 2, max_brackets |-> 2]
    /\ output[1].requests = <<"A", "C">>
    /\ Len(output[1].detector_runs) = 1

====
